---- MODULE Spec2Model ----
(***************************************************************************)
(* SQLiteFS (lab8): a POSIX-style filesystem kept in three SQLite tables.  *)
(*   database.py  Database  - inodes / entries / file_data tables          *)
(*   sqlitefs.py  SQLiteFS  - FUSE callbacks and the open-file table        *)
(*                                                                         *)
(* Byte strings are sequences over Byte; positions are 0-based in the code *)
(* and 1-based in the sequences below.  CHUNK_SIZE is scaled down from 4096*)
(* so that whole files can be enumerated; every chunk computation is       *)
(* written relative to CHUNK_SIZE exactly as in the code.                  *)
(***************************************************************************)
EXTENDS Integers, Sequences, FiniteSets, TLC

\* ------------------------------------------------------------------ bounds
\* largest inode id the model lets AUTOINCREMENT hand out
MaxInode == 4
\* largest write offset tried
MaxOff == 2
\* longest byte string written in one call
MaxLen == 2
\* number of directory-index calls (create, remove, rename) made in one run
MaxCalls == 4
\* largest value time.time() takes
MaxClock == 1

\* ------------------------------------------------------- program constants
CHUNK_SIZE == 2
S_IFDIR == 16384
S_IFREG == 32768

\* mode & 0o40000, the directory test used throughout database.py
IsDirMode(mode) == (mode \div S_IFDIR) % 2 = 1
\* stat.S_ISDIR(mode): (mode & 0o170000) == 0o040000
S_ISDIR(mode) == (mode \div 4096) % 16 = 4
\* mode & 0o777
PermBits(mode) == mode % 512

\* byte strings handed to write: the prefixes of 1 2 3 ..., non-zero bytes
\* (so that holes are visible) that differ by position
DataString(n) == [j \in 1..n |-> j]
NAMES == {"-", ".", "..", "a"}
\* sqlite_autoindex_entries_1 orders (parent_id, name) by the BINARY
\* collation of name: '-' (0x2D) < '.' (0x2E) < '..' < 'a'
NameOrd(n) ==
  CASE n = "" -> 0 [] n = "-" -> 1 [] n = "." -> 2 [] n = ".." -> 3
    [] n = "a" -> 4 [] OTHER -> 5

Max(a, b) == IF a >= b THEN a ELSE b
Min(a, b) == IF a <= b THEN a ELSE b
ZeroSeq(n) == [j \in 1..n |-> 0]
\* python slice s[a:b] for 0 <= a
Slice(s, a, b) ==
  LET hi == Min(b, Len(s)) IN
  IF a >= hi THEN <<>> ELSE [j \in 1..(hi - a) |-> s[a + j]]
\* python None for an inode id
None == 0

VARIABLES
  inodes,      \* table inodes: id -> row
  entries,     \* table entries: set of rows [parent_id, name, inode_id]
  file_data,   \* table file_data: <<inode_id, chunk_num>> -> data
  seq,         \* sqlite_sequence value of the AUTOINCREMENT column inodes.id
  fd_counter,  \* SQLiteFS.fd_counter
  open_files,  \* SQLiteFS.open_files: fd -> [path, inode_id, flags]
  clock,       \* time.time()
  ctx,         \* fuse_get_context(): [uid, gid]
  pc,          \* per worker thread: where it stands inside its callback
  loc,         \* per worker thread: the locals of the callback it runs
  ref,         \* reference flat byte array per inode (specification state)
  last,        \* the call that completed last and what it returned
  calls        \* number of directory-index calls made so far

vars == <<inodes, entries, file_data, seq, fd_counter, open_files, clock,
          ctx, pc, loc, ref, last, calls>>

\* ------------------------------------------------------------ chunk store
HasChunk(fd, i, k) == <<i, k>> \in DOMAIN fd /\ Len(fd[<<i, k>>]) > 0

\* INSERT OR REPLACE INTO file_data
PutChunk(fd, i, k, d) ==
  [p \in DOMAIN fd \cup {<<i, k>>} |-> IF p = <<i, k>> THEN d ELSE fd[p]]

\* DropChunksFrom deleting one chunk more: chunk_num >= k - 1
DropChunksFromBelow(fd, i, k) ==
  [p \in {q \in DOMAIN fd : ~(q[1] = i /\ q[2] >= k - 1)} |-> fd[p]]

\* DELETE FROM file_data WHERE inode_id = i AND chunk_num >= k
DropChunksFrom(fd, i, k) ==
  [p \in {q \in DOMAIN fd : ~(q[1] = i /\ q[2] >= k)} |-> fd[p]]

\* ChunkBuffer with a fresh buffer that is not zeroed
ChunkBufferStale(fd, i, k) ==
  IF HasChunk(fd, i, k)
  THEN LET c == fd[<<i, k>>] IN
       IF Len(c) < CHUNK_SIZE THEN c \o ZeroSeq(CHUNK_SIZE - Len(c)) ELSE c
  ELSE [j \in 1..CHUNK_SIZE |-> 1]

\* the chunk buffer write_data starts from: the stored chunk zero-padded
\* to CHUNK_SIZE, or a fresh zero buffer
ChunkBuffer(fd, i, k) ==
  IF HasChunk(fd, i, k)
  THEN LET c == fd[<<i, k>>] IN
       IF Len(c) < CHUNK_SIZE THEN c \o ZeroSeq(CHUNK_SIZE - Len(c)) ELSE c
  ELSE ZeroSeq(CHUNK_SIZE)

\* Splice with the slice assignment made at the start of the chunk buffer
\* instead of at chunk_offset
SpliceAtStart(buf, chunk_offset, piece) ==
  piece \o Slice(buf, Len(piece), Len(buf))

\* chunk_data[chunk_offset : chunk_offset + write_len] = piece
Splice(buf, chunk_offset, piece) ==
  Slice(buf, 0, chunk_offset) \o piece
    \o Slice(buf, chunk_offset + Len(piece), Len(buf))

RECURSIVE WriteLoop(_, _, _, _, _, _, _)
\* the for-loop of write_data over chunk_num = k .. end_chunk
WriteLoop(fd, i, offset, data, k, end_chunk, data_pos) ==
  IF k > end_chunk THEN fd
  ELSE
    LET chunk_start == k * CHUNK_SIZE
        chunk_end == (k + 1) * CHUNK_SIZE
        write_start == Max(offset, chunk_start)
        write_end == Min(offset + Len(data), chunk_end)
    IN
    IF write_start >= write_end
    THEN WriteLoop(fd, i, offset, data, k + 1, end_chunk, data_pos)
    ELSE
      LET chunk_offset == write_start - chunk_start
          write_len == write_end - write_start
          piece == Slice(data, data_pos, data_pos + write_len)
          chunk_data == Splice(ChunkBuffer(fd, i, k), chunk_offset, piece)
      IN WriteLoop(PutChunk(fd, i, k, chunk_data), i, offset, data, k + 1,
                   end_chunk, data_pos + write_len)

\* the chunk rows after write_data(inode_id, offset, data)
WriteChunks(fd, i, offset, data) ==
  WriteLoop(fd, i, offset, data, offset \div CHUNK_SIZE,
            (offset + Len(data) - 1) \div CHUNK_SIZE, 0)

RECURSIVE ReadLoop(_, _, _, _, _, _, _)
\* the for-loop of read_data over chunk_num = k .. end_chunk
ReadLoop(fd, i, file_size, offset, length, k, end_chunk) ==
  IF k > end_chunk THEN <<>>
  ELSE
    LET chunk_start == k * CHUNK_SIZE
        chunk_data ==
          IF HasChunk(fd, i, k) THEN fd[<<i, k>>]
          ELSE ZeroSeq(Min(chunk_start + CHUNK_SIZE, file_size) - chunk_start)
        chunk_end == Min(chunk_start + Len(chunk_data), file_size)
        read_start == Max(offset, chunk_start)
        read_end == Min(offset + length, chunk_end)
        part == IF read_start < read_end
                THEN Slice(chunk_data, read_start - chunk_start,
                           read_start - chunk_start + (read_end - read_start))
                ELSE <<>>
    IN part \o ReadLoop(fd, i, file_size, offset, length, k + 1, end_chunk)

\* Database.read_data(inode_id, offset, length) on tables ino, fd
read_data(ino, fd, i, offset, length) ==
  IF i \notin DOMAIN ino THEN <<>>
  ELSE
    LET file_size == ino[i].size IN
    IF offset >= file_size THEN <<>>
    ELSE
      LET len == Min(length, file_size - offset) IN
      ReadLoop(fd, i, file_size, offset, len, offset \div CHUNK_SIZE,
               (offset + len - 1) \div CHUNK_SIZE)

\* TruncateChunks without the zero-padding of the last chunk when the file
\* grows
TruncateChunksNoPad(fd, i, current_size, length) ==
  IF length < current_size
  THEN
    LET start_chunk == (length + CHUNK_SIZE - 1) \div CHUNK_SIZE
        fd1 == DropChunksFrom(fd, i, start_chunk)
    IN
    IF length > 0 /\ length % CHUNK_SIZE # 0
    THEN
      LET last_chunk == (length - 1) \div CHUNK_SIZE
          new_length == length - last_chunk * CHUNK_SIZE
      IN
      IF HasChunk(fd1, i, last_chunk) /\ Len(fd1[<<i, last_chunk>>]) > new_length
      THEN PutChunk(fd1, i, last_chunk,
                    Slice(fd1[<<i, last_chunk>>], 0, new_length))
      ELSE fd1
    ELSE fd1
  ELSE fd

\* the chunk rows after truncate(inode_id, length) from size current_size
TruncateChunks(fd, i, current_size, length) ==
  IF length < current_size
  THEN
    LET start_chunk == (length + CHUNK_SIZE - 1) \div CHUNK_SIZE
        fd1 == DropChunksFrom(fd, i, start_chunk)
    IN
    IF length > 0 /\ length % CHUNK_SIZE # 0
    THEN
      LET last_chunk == (length - 1) \div CHUNK_SIZE
          new_length == length - last_chunk * CHUNK_SIZE
      IN
      IF HasChunk(fd1, i, last_chunk) /\ Len(fd1[<<i, last_chunk>>]) > new_length
      THEN PutChunk(fd1, i, last_chunk,
                    Slice(fd1[<<i, last_chunk>>], 0, new_length))
      ELSE fd1
    ELSE fd1
  ELSE
    IF current_size > 0 /\ current_size % CHUNK_SIZE # 0
    THEN
      LET last_chunk == (current_size - 1) \div CHUNK_SIZE IN
      IF HasChunk(fd, i, last_chunk)
           /\ CHUNK_SIZE - Len(fd[<<i, last_chunk>>]) > 0
      THEN PutChunk(fd, i, last_chunk,
                    fd[<<i, last_chunk>>]
                      \o ZeroSeq(CHUNK_SIZE - Len(fd[<<i, last_chunk>>])))
      ELSE fd
    ELSE fd

\* ------------------------------------------------------- directory index
DB == [inodes |-> inodes, entries |-> entries, file_data |-> file_data,
       seq |-> seq]

Row(p, n, i) == [parent_id |-> p, name |-> n, inode_id |-> i]

\* SELECT inode_id FROM entries WHERE parent_id = p AND name = n
Lookup(E, p, n) ==
  LET rows == {e \in E : e.parent_id = p /\ e.name = n} IN
  IF rows = {} THEN None ELSE (CHOOSE e \in rows : TRUE).inode_id

\* INSERT INTO entries: the PRIMARY KEY (parent_id, name) rejects a duplicate
InsertOk(E, p, n) == Lookup(E, p, n) = None

\* Database.get_inode(inode_id): the id when the row exists, None otherwise
get_inode(ino, id) == IF id \in DOMAIN ino THEN id ELSE None

RECURSIVE WalkPath(_, _, _)
\* the for-loop of get_inode_by_path over the path components
WalkPath(E, current_id, parts) ==
  IF parts = <<>> THEN current_id
  ELSE
    LET row == Lookup(E, current_id, Head(parts)) IN
    IF row = None THEN None ELSE WalkPath(E, row, Tail(parts))

\* Database.get_inode_by_path(path); a path is its sequence of components,
\* '/' is the empty sequence and empty components are dropped
get_inode_by_path(db, path) ==
  IF path = <<>> THEN get_inode(db.inodes, 1)
  ELSE
    LET parts == SelectSeq(path, LAMBDA p : p # "")
        id == WalkPath(db.entries, 1, parts)
    IN IF id = None THEN None ELSE get_inode(db.inodes, id)

\* SQLiteFS._split_path(path): (dirname, basename)
split_dir(path) == IF path = <<>> THEN <<>> ELSE SubSeq(path, 1, Len(path) - 1)
split_base(path) == IF path = <<>> THEN "" ELSE path[Len(path)]

NewInode(mode, uid, gid, now) ==
  [mode |-> mode, uid |-> uid, gid |-> gid, size |-> 0, atime |-> now,
   mtime |-> now, ctime |-> now, nlink |-> IF IsDirMode(mode) THEN 2 ELSE 1]

Fail(db, msg) == [err |-> msg, ret |-> None, db |-> db]
Done(db, ret) == [err |-> "", ret |-> ret, db |-> db]

\* ---- create_entry
\* create_check without the SELECT that looks for an existing entry
create_check_no_lookup(db, parent_path, name) ==
  LET parent_id == get_inode_by_path(db, parent_path) IN
  IF parent_id = None THEN [err |-> "Parent directory not found", parent_id |-> None]
  ELSE [err |-> "", parent_id |-> parent_id]

\* the SELECTs of create_entry, run before its first INSERT
create_check(db, parent_path, name) ==
  LET parent_id == get_inode_by_path(db, parent_path) IN
  IF parent_id = None THEN [err |-> "Parent directory not found", parent_id |-> None]
  ELSE IF Lookup(db.entries, parent_id, name) # None
       THEN [err |-> "Entry already exists", parent_id |-> parent_id]
       ELSE [err |-> "", parent_id |-> parent_id]

\* create_txn on an inodes table declared without AUTOINCREMENT: the new id
\* is one above the largest id in the table
create_txn_rowid(db, parent_id, name, mode, uid, gid, now) ==
  LET new_inode_id == 1 + (CHOOSE m \in DOMAIN db.inodes \cup {0} :
                             \A i \in DOMAIN db.inodes : i <= m)
      ino1 == [i \in DOMAIN db.inodes \cup {new_inode_id} |->
                 IF i = new_inode_id THEN NewInode(mode, uid, gid, now)
                 ELSE db.inodes[i]]
      E1 == db.entries \cup {Row(parent_id, name, new_inode_id)}
      E2 == IF IsDirMode(mode)
            THEN E1 \cup {Row(new_inode_id, ".", new_inode_id),
                          Row(new_inode_id, "..", parent_id)}
            ELSE E1
  IN
  IF ~InsertOk(db.entries, parent_id, name) THEN Fail(db, "IntegrityError")
  ELSE IF IsDirMode(mode)
            /\ (~InsertOk(E1, new_inode_id, ".") \/ ~InsertOk(E1, new_inode_id, ".."))
       THEN Fail(db, "IntegrityError")
       ELSE Done([db EXCEPT !.inodes = ino1, !.entries = E2,
                            !.seq = new_inode_id], new_inode_id)

\* the INSERTs of create_entry, one transaction
create_txn(db, parent_id, name, mode, uid, gid, now) ==
  LET new_inode_id == db.seq + 1
      ino1 == [i \in DOMAIN db.inodes \cup {new_inode_id} |->
                 IF i = new_inode_id THEN NewInode(mode, uid, gid, now)
                 ELSE db.inodes[i]]
      E1 == db.entries \cup {Row(parent_id, name, new_inode_id)}
      E2 == IF IsDirMode(mode)
            THEN E1 \cup {Row(new_inode_id, ".", new_inode_id),
                          Row(new_inode_id, "..", parent_id)}
            ELSE E1
  IN
  IF ~InsertOk(db.entries, parent_id, name) THEN Fail(db, "IntegrityError")
  ELSE IF IsDirMode(mode)
            /\ (~InsertOk(E1, new_inode_id, ".") \/ ~InsertOk(E1, new_inode_id, ".."))
       THEN Fail(db, "IntegrityError")
       ELSE Done([db EXCEPT !.inodes = ino1, !.entries = E2,
                            !.seq = new_inode_id], new_inode_id)

\* Database.create_entry(parent_path, name, mode, uid, gid)
create_entry(db, parent_path, name, mode, uid, gid, now) ==
  LET c == create_check(db, parent_path, name) IN
  IF c.err # "" THEN Fail(db, c.err)
  ELSE create_txn(db, c.parent_id, name, mode, uid, gid, now)

\* ---- remove_entry
\* remove_check without the COUNT of the entries of a directory
remove_check_no_count(db, parent_path, name) ==
  LET parent_id == get_inode_by_path(db, parent_path)
      inode_id == Lookup(db.entries, parent_id, name)
      bad(msg) == [err |-> msg, parent_id |-> parent_id, inode_id |-> None]
  IN
  IF parent_id = None THEN bad("Parent directory not found")
  ELSE IF inode_id = None THEN bad("Entry not found")
  ELSE IF get_inode(db.inodes, inode_id) = None THEN bad("Inode not found")
  ELSE [err |-> "", parent_id |-> parent_id, inode_id |-> inode_id]

\* the SELECTs of remove_entry, run before its first DELETE
remove_check(db, parent_path, name) ==
  LET parent_id == get_inode_by_path(db, parent_path)
      inode_id == Lookup(db.entries, parent_id, name)
      bad(msg) == [err |-> msg, parent_id |-> parent_id, inode_id |-> None]
  IN
  IF parent_id = None THEN bad("Parent directory not found")
  ELSE IF inode_id = None THEN bad("Entry not found")
  ELSE IF get_inode(db.inodes, inode_id) = None THEN bad("Inode not found")
  ELSE IF IsDirMode(db.inodes[inode_id].mode)
            /\ Cardinality({e \in db.entries : e.parent_id = inode_id
                                /\ e.name \notin {".", ".."}}) > 0
       THEN bad("Directory not empty")
       ELSE [err |-> "", parent_id |-> parent_id, inode_id |-> inode_id]

\* DecLink taking two links off instead of one
DecLinkTwice(ino, id) == [ino EXCEPT ![id].nlink = @ - 2]

\* nlink after UPDATE inodes SET nlink = nlink - 1
DecLink(ino, id) == [ino EXCEPT ![id].nlink = @ - 1]

\* the rows that go when nlink <= 0: chunks, entries naming the inode, the inode
PurgeInode(db, id) ==
  [db EXCEPT
     !.file_data = [p \in {q \in DOMAIN db.file_data : q[1] # id} |-> db.file_data[p]],
     !.entries = {e \in db.entries : e.inode_id # id},
     !.inodes = [i \in DOMAIN db.inodes \ {id} |-> db.inodes[i]]]

\* the DELETE / UPDATE statements of remove_entry, one transaction
remove_txn(db, parent_id, name, inode_id) ==
  LET E1 == {e \in db.entries : ~(e.parent_id = parent_id /\ e.name = name)} IN
  IF inode_id \notin DOMAIN db.inodes
  THEN Fail(db, "TypeError")   \* fetchone() of SELECT nlink is None
  ELSE
    LET db1 == [db EXCEPT !.entries = E1, !.inodes = DecLink(db.inodes, inode_id)]
        nlink == db1.inodes[inode_id].nlink
    IN IF nlink <= 0 THEN Done(PurgeInode(db1, inode_id), TRUE)
       ELSE Done(db1, TRUE)

\* Database.remove_entry(parent_path, name)
remove_entry(db, parent_path, name) ==
  LET c == remove_check(db, parent_path, name) IN
  IF c.err # "" THEN Fail(db, c.err)
  ELSE remove_txn(db, c.parent_id, name, c.inode_id)

\* ---- a hard link, made as test_17_hard_links makes it
\* INSERT INTO entries (parent_id, name, inode_id); UPDATE inodes SET nlink =
\* nlink + 1 WHERE id = inode_id; one transaction
hard_link(db, parent_id, name, inode_id) ==
  IF ~InsertOk(db.entries, parent_id, name) THEN Fail(db, "IntegrityError")
  ELSE Done([db EXCEPT
               !.entries = db.entries \cup {Row(parent_id, name, inode_id)},
               !.inodes = IF inode_id \in DOMAIN db.inodes
                          THEN [db.inodes EXCEPT ![inode_id].nlink = @ + 1]
                          ELSE db.inodes], None)

\* ---- rename
\* first row of  entries e1 JOIN entries e2 ON e1.inode_id = e2.parent_id
\* WHERE e1.parent_id = current_id AND e1.name = '..' : e2 is scanned through
\* sqlite_autoindex_entries_1, so the first row is the entry of the parent
\* directory whose name sorts first
JoinFirst(E, current_id) ==
  LET up == Lookup(E, current_id, "..")
      rows == {e \in E : e.parent_id = up}
  IN IF up = None \/ rows = {} THEN None
     ELSE (CHOOSE e \in rows : \A f \in rows : NameOrd(e.name) <= NameOrd(f.name)).inode_id

RECURSIVE AncestorWalk(_, _, _, _)
\* the while-loop of rename: "cycle" when it raises, "ok" when it leaves the
\* loop, "hang" when it comes back to an id it has already visited
AncestorWalk(E, current_id, inode_id, visited) ==
  IF current_id = 1 THEN "ok"
  ELSE IF current_id = inode_id THEN "cycle"
  ELSE IF current_id \in visited THEN "hang"
  ELSE
    LET row == JoinFirst(E, current_id) IN
    IF row = None THEN "ok"
    ELSE AncestorWalk(E, row, inode_id, visited \cup {current_id})

\* rename_check without the SELECT that looks for the target entry
rename_check_no_target(db, old_parent_path, old_name, new_parent_path, new_name) ==
  LET old_parent_id == get_inode_by_path(db, old_parent_path)
      new_parent_id == get_inode_by_path(db, new_parent_path)
      inode_id == Lookup(db.entries, old_parent_id, old_name)
      res(msg) == [err |-> msg, old_parent_id |-> old_parent_id,
                   new_parent_id |-> new_parent_id, inode_id |-> inode_id]
      walk == AncestorWalk(db.entries, new_parent_id, inode_id, {})
  IN
  IF old_parent_id = None THEN res("Old parent directory not found")
  ELSE IF new_parent_id = None THEN res("New parent directory not found")
  ELSE IF inode_id = None THEN res("Source not found")
  ELSE IF old_parent_id # new_parent_id /\ walk = "cycle"
       THEN res("Cannot move directory into itself")
  ELSE IF old_parent_id # new_parent_id /\ walk = "hang" THEN res("hang")
  ELSE IF old_parent_id # new_parent_id /\ inode_id = 1
       THEN res("Cannot move root directory")
  ELSE res("")

\* the SELECTs of rename, run before its first DELETE
rename_check(db, old_parent_path, old_name, new_parent_path, new_name) ==
  LET old_parent_id == get_inode_by_path(db, old_parent_path)
      new_parent_id == get_inode_by_path(db, new_parent_path)
      inode_id == Lookup(db.entries, old_parent_id, old_name)
      res(msg) == [err |-> msg, old_parent_id |-> old_parent_id,
                   new_parent_id |-> new_parent_id, inode_id |-> inode_id]
      walk == AncestorWalk(db.entries, new_parent_id, inode_id, {})
  IN
  IF old_parent_id = None THEN res("Old parent directory not found")
  ELSE IF new_parent_id = None THEN res("New parent directory not found")
  ELSE IF inode_id = None THEN res("Source not found")
  ELSE IF Lookup(db.entries, new_parent_id, new_name) # None
       THEN res("Target already exists")
  ELSE IF old_parent_id # new_parent_id /\ walk = "cycle"
       THEN res("Cannot move directory into itself")
  ELSE IF old_parent_id # new_parent_id /\ walk = "hang" THEN res("hang")
  ELSE IF old_parent_id # new_parent_id /\ inode_id = 1
       THEN res("Cannot move root directory")
  ELSE res("")

\* the DELETE / INSERT / UPDATE of rename, one transaction
rename_txn(db, old_parent_id, old_name, new_parent_id, new_name, inode_id, now) ==
  LET E1 == {e \in db.entries : ~(e.parent_id = old_parent_id /\ e.name = old_name)}
      ino1 == IF inode_id \in DOMAIN db.inodes
              THEN [db.inodes EXCEPT ![inode_id].ctime = now] ELSE db.inodes
  IN
  IF ~InsertOk(E1, new_parent_id, new_name) THEN Fail(db, "IntegrityError")
  ELSE Done([db EXCEPT !.entries = E1 \cup {Row(new_parent_id, new_name, inode_id)},
                       !.inodes = ino1], None)

\* Database.rename(old_parent_path, old_name, new_parent_path, new_name)
rename(db, old_parent_path, old_name, new_parent_path, new_name, now) ==
  LET c == rename_check(db, old_parent_path, old_name, new_parent_path, new_name) IN
  IF c.err # "" THEN Fail(db, c.err)
  ELSE rename_txn(db, c.old_parent_id, old_name, c.new_parent_id, new_name,
                  c.inode_id, now)

\* ---- write_data / truncate / update_times
\* size_check that takes a missing inode for an empty file, as read_data does
size_check_missing_empty(db, inode_id) ==
  IF inode_id \notin DOMAIN db.inodes
  THEN [err |-> "", current_size |-> 0]
  ELSE [err |-> "", current_size |-> db.inodes[inode_id].size]

\* SELECT size FROM inodes WHERE id = ?, run before the first UPDATE
size_check(db, inode_id) ==
  IF inode_id \notin DOMAIN db.inodes
  THEN [err |-> "Inode not found", current_size |-> 0]
  ELSE [err |-> "", current_size |-> db.inodes[inode_id].size]

\* UPDATE inodes SET size = ?, mtime = ? WHERE id = ?
SetSize(ino, inode_id, size, now) ==
  IF inode_id \in DOMAIN ino
  THEN [ino EXCEPT ![inode_id].size = size, ![inode_id].mtime = now] ELSE ino

\* the UPDATE and the chunk loop of write_data, one transaction
write_txn(db, inode_id, offset, data, current_size, now) ==
  LET new_size == Max(current_size, offset + Len(data)) IN
  Done([db EXCEPT !.inodes = SetSize(db.inodes, inode_id, new_size, now),
                  !.file_data = WriteChunks(db.file_data, inode_id, offset, data)],
       Len(data))

\* Database.write_data(inode_id, offset, data)
write_data(db, inode_id, offset, data, now) ==
  LET c == size_check(db, inode_id) IN
  IF c.err # "" THEN Fail(db, c.err)
  ELSE write_txn(db, inode_id, offset, data, c.current_size, now)

\* the UPDATE and the chunk statements of truncate, one transaction
truncate_txn(db, inode_id, length, current_size, now) ==
  Done([db EXCEPT !.inodes = SetSize(db.inodes, inode_id, length, now),
                  !.file_data = TruncateChunks(db.file_data, inode_id,
                                               current_size, length)], None)

\* Database.truncate(inode_id, length)
truncate(db, inode_id, length, now) ==
  LET c == size_check(db, inode_id) IN
  IF c.err # "" THEN Fail(db, c.err)
  ELSE truncate_txn(db, inode_id, length, c.current_size, now)

\* python None for a time argument of update_times
NoTime == -1

\* Database.update_times(inode_id, atime, mtime, ctime): one UPDATE of the
\* columns whose argument is not None
update_times(db, inode_id, atime, mtime, ctime) ==
  IF inode_id \notin DOMAIN db.inodes THEN Done(db, None)
  ELSE Done([db EXCEPT
               !.inodes[inode_id].atime = IF atime # NoTime THEN atime ELSE @,
               !.inodes[inode_id].mtime = IF mtime # NoTime THEN mtime ELSE @,
               !.inodes[inode_id].ctime = IF ctime # NoTime THEN ctime ELSE @],
            None)

\* Database.chmod(inode_id, mode)
chmod(db, inode_id, mode, now) ==
  IF inode_id \notin DOMAIN db.inodes THEN Done(db, None)
  ELSE Done([db EXCEPT !.inodes[inode_id].mode = mode,
                       !.inodes[inode_id].ctime = now], None)

\* Database.chown(inode_id, uid, gid)
chown(db, inode_id, uid, gid, now) ==
  IF inode_id \notin DOMAIN db.inodes THEN Done(db, None)
  ELSE Done([db EXCEPT !.inodes[inode_id].uid = uid,
                       !.inodes[inode_id].gid = gid,
                       !.inodes[inode_id].ctime = now], None)

\* ---------------------------------------------------- FUSE callbacks
\* SQLiteFS.mkdir(path, mode)
fs_mkdir(db, path, mode, c, now) ==
  LET dirname == split_dir(path)
      basename == split_base(path)
      m == IF mode = 0 THEN 493 ELSE mode          \* 0o755
      dir_mode == PermBits(m) + S_IFDIR
      r == create_entry(db, dirname, basename, dir_mode, c.uid, c.gid, now)
  IN
  IF get_inode_by_path(db, dirname) = None THEN Fail(db, "ENOENT")
  ELSE IF get_inode_by_path(db, path) # None THEN Fail(db, "EEXIST")
  ELSE IF r.err # "" THEN Fail(db, "EIO") ELSE Done(r.db, 0)

\* os.O_WRONLY | os.O_CREAT | os.O_TRUNC
CreateFlags == 577

\* SQLiteFS.create(path, mode) up to the return of create_entry; ret is the
\* new inode id
fs_create(db, path, mode, c, now) ==
  LET dirname == split_dir(path)
      basename == split_base(path)
      m == IF mode = 0 THEN 420 ELSE mode          \* 0o644
      file_mode == PermBits(m) + S_IFREG
      r == create_entry(db, dirname, basename, file_mode, c.uid, c.gid, now)
  IN
  IF get_inode_by_path(db, dirname) = None THEN Fail(db, "ENOENT")
  ELSE IF get_inode_by_path(db, path) # None THEN Fail(db, "EEXIST")
  ELSE IF r.err # "" THEN Fail(db, "EIO") ELSE Done(r.db, r.ret)

\* SQLiteFS.unlink(path)
fs_unlink(db, path) ==
  LET inode == get_inode_by_path(db, path)
      r == remove_entry(db, split_dir(path), split_base(path))
  IN
  IF inode = None THEN Fail(db, "ENOENT")
  ELSE IF S_ISDIR(db.inodes[inode].mode) THEN Fail(db, "EISDIR")
  ELSE IF r.err # "" THEN Fail(db, "EIO") ELSE Done(r.db, 0)

\* SQLiteFS.rmdir(path)
fs_rmdir(db, path) ==
  LET inode == get_inode_by_path(db, path)
      r == remove_entry(db, split_dir(path), split_base(path))
  IN
  IF inode = None THEN Fail(db, "ENOENT")
  ELSE IF ~S_ISDIR(db.inodes[inode].mode) THEN Fail(db, "ENOTDIR")
  ELSE IF r.err = "Directory not empty" THEN Fail(db, "ENOTEMPTY")
  ELSE IF r.err # "" THEN Fail(db, "EIO") ELSE Done(r.db, 0)

\* SQLiteFS.chmod storing the requested mode as it came
fs_chmod_raw(db, path, mode, now) ==
  LET inode == get_inode_by_path(db, path) IN
  IF inode = None THEN Fail(db, "ENOENT")
  ELSE Done(chmod(db, inode, mode, now).db, 0)

\* SQLiteFS.chmod(path, mode): (inode['mode'] & ~0o777) | (mode & 0o777)
fs_chmod(db, path, mode, now) ==
  LET inode == get_inode_by_path(db, path) IN
  IF inode = None THEN Fail(db, "ENOENT")
  ELSE LET new_mode == (db.inodes[inode].mode \div 512) * 512 + PermBits(mode)
       IN Done(chmod(db, inode, new_mode, now).db, 0)

\* SQLiteFS.chown without the test of the caller's uid
fs_chown_anyone(db, path, uid, gid, c, now) ==
  LET inode == get_inode_by_path(db, path) IN
  IF inode = None THEN Fail(db, "ENOENT")
  ELSE Done(update_times(chown(db, inode, uid, gid, now).db, inode,
                         NoTime, NoTime, now).db, 0)

\* SQLiteFS.chown(path, uid, gid)
fs_chown(db, path, uid, gid, c, now) ==
  LET inode == get_inode_by_path(db, path) IN
  IF inode = None THEN Fail(db, "ENOENT")
  ELSE IF c.uid # 0 THEN Fail(db, "EPERM")
  ELSE Done(update_times(chown(db, inode, uid, gid, now).db, inode,
                         NoTime, NoTime, now).db, 0)

\* flags & os.O_RDWR (os.O_RDONLY is 0, so flags & os.O_RDONLY is never true)
O_RDWR == 2
WantsRead(flags) == (flags \div O_RDWR) % 2 = 1

\* SQLiteFS.open(path, flags) without the descriptor: ret is the inode id
fs_open(db, path, flags, now) ==
  LET inode == get_inode_by_path(db, path) IN
  IF inode = None THEN Fail(db, "ENOENT")
  ELSE IF S_ISDIR(db.inodes[inode].mode) THEN Done(db, inode)
  ELSE IF WantsRead(flags)
       THEN Done(update_times(db, inode, now, NoTime, NoTime).db, inode)
       ELSE Done(db, inode)

\* self.open_files[fd] = rec
PutFd(of, fd, rec) ==
  [f \in DOMAIN of \cup {fd} |-> IF f = fd THEN rec ELSE of[f]]

\* SQLiteFS.read(path, length, offset, fh) on the handle table of
fs_read(db, of, fh, offset, length, now) ==
  IF fh \notin DOMAIN of THEN Fail(db, "EBADF")
  ELSE LET i == of[fh].inode_id
           data == read_data(db.inodes, db.file_data, i, offset, length)
       IN Done(update_times(db, i, now, NoTime, NoTime).db, data)

\* SQLiteFS.write(path, data, offset, fh) on the handle table of
fs_write(db, of, fh, data, offset, now) ==
  IF fh \notin DOMAIN of THEN Fail(db, "EBADF")
  ELSE LET i == of[fh].inode_id
           r == write_data(db, i, offset, data, now)
       IN IF r.err # "" THEN Fail(db, "EIO")
          ELSE Done(update_times(r.db, i, NoTime, now, NoTime).db, r.ret)

\* SQLiteFS.release that leaves the record in the handle table
fs_release_keep(of, fh) == of

\* SQLiteFS.release(path, fh): the handle table afterwards
fs_release(of, fh) ==
  IF fh \in DOMAIN of THEN [f \in DOMAIN of \ {fh} |-> of[f]] ELSE of

\* where a storage fault (sqlite3.OperationalError, e.g. 'database is locked')
\* strikes in a callback that makes two database calls: nowhere, in the
\* first call, in the update_times call that follows it
Faults == {"none", "first", "update_times"}

\* SQLiteFS.write with a storage fault: a database call that raises rolls
\* its own transaction back; one that has returned has committed
fs_write_fault(db, of, fh, data, offset, now, fault) ==
  IF fh \notin DOMAIN of THEN Fail(db, "EBADF")
  ELSE LET i == of[fh].inode_id
           r == write_data(db, i, offset, data, now)
       IN IF r.err # "" \/ fault = "first" THEN Fail(db, "EIO")
          ELSE IF fault = "update_times" THEN Fail(r.db, "EIO")
          ELSE Done(update_times(r.db, i, NoTime, now, NoTime).db, r.ret)

\* SQLiteFS.chown with a storage fault
fs_chown_fault(db, path, uid, gid, c, now, fault) ==
  LET inode == get_inode_by_path(db, path) IN
  IF inode = None THEN Fail(db, "ENOENT")
  ELSE IF c.uid # 0 THEN Fail(db, "EPERM")
  ELSE IF fault = "first" THEN Fail(db, "EIO")
  ELSE IF fault = "update_times" THEN Fail(chown(db, inode, uid, gid, now).db, "EIO")
  ELSE Done(update_times(chown(db, inode, uid, gid, now).db, inode,
                         NoTime, NoTime, now).db, 0)

RECURSIVE InNameOrder(_)
\* the names of a set of entries of one directory in the order of
\* sqlite_autoindex_entries_1, through which the SELECT reads them
InNameOrder(N) ==
  IF N = {} THEN <<>>
  ELSE LET n == CHOOSE m \in N : \A o \in N : NameOrd(m) <= NameOrd(o)
       IN <<n>> \o InNameOrder(N \ {n})

\* Database.list_directory(path)
list_directory(db, path) ==
  LET inode == get_inode_by_path(db, path) IN
  IF inode = None THEN Done(db, <<>>)
  ELSE IF ~IsDirMode(db.inodes[inode].mode) THEN Fail(db, "Not a directory")
  ELSE Done(db, InNameOrder({e.name : e \in {f \in db.entries : f.parent_id = inode}}))

\* SQLiteFS.readdir(path, fh); the exception of list_directory is not caught
fs_readdir(db, path) ==
  LET r == list_directory(db, path) IN
  IF r.err # "" THEN r ELSE Done(db, <<".", "..">> \o r.ret)

\* SQLiteFS.rename(old, new)
fs_rename(db, old, new, now) ==
  LET r == rename(db, split_dir(old), split_base(old), split_dir(new),
                  split_base(new), now)
  IN
  IF r.err = "Target already exists" THEN Fail(db, "EEXIST")
  \* "Cannot move directory" in str(e): 'Cannot move root directory' does
  \* not contain it and falls through to EIO
  ELSE IF r.err = "Cannot move directory into itself" THEN Fail(db, "EINVAL")
  ELSE IF r.err = "hang" THEN Fail(db, "hang")
  ELSE IF r.err # "" THEN Fail(db, "EIO") ELSE Done(r.db, 0)

\* ------------------------------------------------- reference byte arrays
RefWrite(r, offset, data) ==
  LET base == IF Len(r) < offset THEN r \o ZeroSeq(offset - Len(r)) ELSE r IN
  Slice(base, 0, offset) \o data \o Slice(base, offset + Len(data), Len(base))
RefTruncate(r, n) ==
  IF n <= Len(r) THEN Slice(r, 0, n) ELSE r \o ZeroSeq(n - Len(r))
\* keep one array per existing inode; a new inode starts empty
RefFor(ino, r) == [i \in DOMAIN ino |-> IF i \in DOMAIN r THEN r[i] ELSE <<>>]

\* ------------------------------------------------------------ the state
Threads == {1, 2}
RootMode == 493 + S_IFDIR                           \* 0o755 | 0o40000
FileMode == 420 + S_IFREG                           \* S_IFREG | 0o644
DirMode == 493 + S_IFDIR                            \* S_IFDIR | 0o755
ParentPaths == {<<>>, <<"a">>, <<"a", "a">>}
\* the paths the kernel sends: it resolves '.' and '..' itself
FsNames == NAMES \ {".", ".."}
Paths == {<<>>} \cup {pp \o <<n>> : pp \in ParentPaths, n \in FsNames}
\* ret: the number a call returned; data: the bytes a read or the names a
\* readdir returned; size: the size the inode of a write_data or truncate had
\* when it was called
NoCall == [op |-> "", args |-> <<>>, err |-> "", ret |-> None, data |-> <<>>,
           size |-> 0]
Call(op, args, r) ==
  LET listed == op \in {"read", "readdir", "read_data"} IN
  [op |-> op, args |-> args, err |-> r.err,
   ret |-> IF listed THEN None ELSE r.ret,
   data |-> IF listed /\ r.err = "" THEN r.ret ELSE <<>>,
   size |-> 0]

\* a database file with its three tables created and no row in them
EmptyDB == [inodes |-> <<>>, entries |-> {}, file_data |-> <<>>, seq |-> 0]
\* os.getuid(), os.getgid() of the mounting process
ProcUid == 0
ProcGid == 0

\* _init_db with the root inserted with the column default nlink = 1
init_db_default_nlink(db, now) ==
  Done([db EXCEPT
          !.inodes = (1 :> [mode |-> RootMode, uid |-> ProcUid, gid |-> ProcGid,
                            size |-> 0, atime |-> now, mtime |-> now,
                            ctime |-> now, nlink |-> 1]),
          !.entries = db.entries \cup {Row(1, ".", 1), Row(1, "..", 1)},
          !.seq = Max(db.seq, 1)], None)

\* Database._init_db: insert the root directory unless inode 1 exists
init_db(db, now) ==
  IF 1 \in DOMAIN db.inodes THEN Done(db, None)
  ELSE IF ~InsertOk(db.entries, 1, ".") \/ ~InsertOk(db.entries, 1, "..")
  THEN Fail(db, "IntegrityError")
  ELSE Done([db EXCEPT
               !.inodes = [i \in DOMAIN db.inodes \cup {1} |->
                            IF i = 1
                            THEN [mode |-> RootMode, uid |-> ProcUid, gid |-> ProcGid,
                                  size |-> 0, atime |-> now, mtime |-> now,
                                  ctime |-> now, nlink |-> 2]
                            ELSE db.inodes[i]],
               !.entries = db.entries \cup {Row(1, ".", 1), Row(1, "..", 1)},
               !.seq = Max(db.seq, 1)], None)

\* Database(db_path) on a file whose tables are dropped first
reopen_fresh(db, now) == init_db(EmptyDB, now)

\* Database(db_path) on the database file of an earlier Database object
reopen(db, now) == init_db(db, now)

\* Database(db_path) on an empty file, then SQLiteFS.__init__
Init ==
  /\ inodes = init_db(EmptyDB, 0).db.inodes
  /\ entries = init_db(EmptyDB, 0).db.entries
  /\ file_data = init_db(EmptyDB, 0).db.file_data
  /\ seq = init_db(EmptyDB, 0).db.seq
  /\ fd_counter = 0
  /\ open_files = <<>>
  /\ clock = 0
  /\ ctx = [uid |-> 1000, gid |-> 1000]
  /\ pc = [t \in Threads |-> "idle"]
  /\ loc = [t \in Threads |-> NoCall]
  /\ ref = (1 :> <<>>)
  /\ last = NoCall
  /\ calls = 0

Idle == \A t \in Threads : pc[t] = "idle"

\* what a database call leaves behind: commit on return, rollback on raise
Commit(r) ==
  /\ inodes' = r.db.inodes
  /\ entries' = r.db.entries
  /\ file_data' = r.db.file_data
  /\ seq' = r.db.seq

\* one whole call, run with no other thread inside the database
FinishAt(op, args, r, newref, size) ==
  /\ Idle
  /\ r.db.seq <= MaxInode
  /\ Commit(r)
  /\ ref' = RefFor(r.db.inodes, newref)
  /\ last' = [Call(op, args, r) EXCEPT !.size = size]
  /\ UNCHANGED <<fd_counter, open_files, clock, ctx, pc, loc>>

Finish(op, args, r, newref) == FinishAt(op, args, r, newref, 0)

\* a directory-index call
Run(op, args, r) ==
  /\ calls < MaxCalls
  /\ Finish(op, args, r, ref)
  /\ calls' = calls + 1

DbCreate(pp, n, mode) ==
  Run("create_entry", <<>>, create_entry(DB, pp, n, mode, ctx.uid, ctx.gid, clock))
DbRemove(pp, n) ==
  Run("remove_entry", <<>>, remove_entry(DB, pp, n))
DbRename(opp, on, npp, nn) ==
  Run("rename", <<>>, rename(DB, opp, on, npp, nn, clock))
Mkdir(path, mode) ==
  Run("mkdir", <<path>>, fs_mkdir(DB, path, mode, ctx, clock))
Unlink(path) == Run("unlink", <<path>>, fs_unlink(DB, path))
Rmdir(path) == Run("rmdir", <<path>>, fs_rmdir(DB, path))
Rename(old, new) == Run("fs_rename", <<old, new>>, fs_rename(DB, old, new, clock))
Readdir(path) == Run("readdir", <<path>>, fs_readdir(DB, path))

\* SQLiteFS.create: the file is made, then a descriptor is handed out
Create(path, mode) ==
  LET r == fs_create(DB, path, mode, ctx, clock)
      fd == fd_counter + 1
  IN
  /\ calls < MaxCalls
  /\ Idle
  /\ r.db.seq <= MaxInode
  /\ Commit(r)
  /\ ref' = RefFor(r.db.inodes, ref)
  /\ calls' = calls + 1
  /\ IF r.err = ""
     THEN /\ fd_counter' = fd
          /\ open_files' = [f \in DOMAIN open_files \cup {fd} |->
                              IF f = fd
                              THEN [path |-> path, inode_id |-> r.ret,
                                    flags |-> CreateFlags]
                              ELSE open_files[f]]
          /\ last' = Call("create", <<path>>, Done(r.db, fd))
     ELSE /\ UNCHANGED <<fd_counter, open_files>>
          /\ last' = Call("create", <<path>>, r)
  /\ UNCHANGED <<clock, ctx, pc, loc>>

\* Database API: the directory index
Next ==
  \/ \E pp \in ParentPaths, n \in NAMES, mode \in {FileMode, DirMode} :
       DbCreate(pp, n, mode)
  \/ \E pp \in ParentPaths, n \in NAMES :
       DbRemove(pp, n)
  \/ \E opp \in ParentPaths, on \in NAMES, npp \in ParentPaths, nn \in NAMES :
       DbRename(opp, on, npp, nn)

Spec == Init /\ [][Next]_vars

\* FUSE callbacks on the directory tree, called with the paths of Paths
NextFS ==
  \/ \E path \in Paths, mode \in {0, 493} :
       Mkdir(path, mode)
  \/ \E path \in Paths :
       Unlink(path)
  \/ \E path \in Paths :
       Rmdir(path)
  \/ \E old \in Paths, new \in Paths \ {<<>>} :
       Rename(old, new)
  \/ \E path \in Paths \ {<<>>}, mode \in {0, 420} :
       Create(path, mode)
  \/ \E path \in Paths :
       Readdir(path)

SpecFS == Init /\ [][NextFS]_vars

\* Database API: the chunk store of one file /a
DataInodes == 2..MaxInode
DataStrings == {DataString(n) : n \in 1..MaxLen}
MaxSize == MaxOff + MaxLen

DataCreate == DbCreate(<<>>, "a", FileMode)
DataRemove == DbRemove(<<>>, "a")
WriteData(i, offset, data) ==
  LET r == write_data(DB, i, offset, data, clock) IN
  /\ FinishAt("write_data", <<i, offset, data>>, r,
              IF r.err = "" THEN [ref EXCEPT ![i] = RefWrite(@, offset, data)] ELSE ref,
              size_check(DB, i).current_size)
  /\ UNCHANGED calls
TruncateData(i, length) ==
  LET r == truncate(DB, i, length, clock) IN
  /\ FinishAt("truncate", <<i, length>>, r,
              IF r.err = "" THEN [ref EXCEPT ![i] = RefTruncate(@, length)] ELSE ref,
              size_check(DB, i).current_size)
  /\ UNCHANGED calls

ReadData(i, offset, length) ==
  /\ Finish("read_data", <<i, offset, length>>,
            Done(DB, read_data(inodes, file_data, i, offset, length)), ref)
  /\ UNCHANGED calls

\* close the Database object and construct a new one on the same file
Reopen ==
  /\ Finish("reopen", <<>>, reopen(DB, clock), ref)
  /\ UNCHANGED calls

NextData ==
  \/ DataCreate
  \/ DataRemove
  \/ \E i \in DataInodes, offset \in 0..MaxOff, data \in DataStrings :
       WriteData(i, offset, data)
  \/ \E i \in DataInodes, length \in 0..MaxSize :
       TruncateData(i, length)
  \/ \E i \in DataInodes :
       ReadData(i, 0, MaxSize)
  \/ Reopen

SpecData == Init /\ [][NextData]_vars

\* Database API on a tree that holds content: files and directories are
\* created, removed and renamed under / and /a while files are written
MoveParents == {<<>>, <<"a">>}
NextMove ==
  \/ \E pp \in MoveParents, n \in NAMES, mode \in {FileMode, DirMode} :
       Run("create_entry", <<pp, n, mode>>,
           create_entry(DB, pp, n, mode, ctx.uid, ctx.gid, clock))
  \/ \E pp \in MoveParents, n \in NAMES :
       Run("remove_entry", <<pp, n>>, remove_entry(DB, pp, n))
  \/ \E opp \in MoveParents, on \in NAMES, npp \in MoveParents, nn \in NAMES :
       Run("rename", <<opp, on, npp, nn>>, rename(DB, opp, on, npp, nn, clock))
  \/ \E i \in DataInodes :
       WriteData(i, 0, DataString(1))

SpecMove == Init /\ [][NextMove]_vars

\* FUSE callbacks on attributes: one directory /a, one file /-, callers with
\* and without uid 0, and a clock that moves
AttrPaths == {<<>>, <<"a">>, <<"-">>}

Chmod(path, mode) == Run("chmod", <<path, mode>>, fs_chmod(DB, path, mode, clock))
Chown(path, uid, gid) ==
  Run("chown", <<path, uid, gid>>, fs_chown(DB, path, uid, gid, ctx, clock))

\* the next callback comes from another process
SetContext(c) ==
  /\ Idle
  /\ c # ctx
  /\ ctx' = c
  /\ UNCHANGED <<inodes, entries, file_data, seq, fd_counter, open_files,
                 clock, pc, loc, ref, last, calls>>

\* time passes
Tick ==
  /\ clock < MaxClock
  /\ clock' = clock + 1
  /\ UNCHANGED <<inodes, entries, file_data, seq, fd_counter, open_files,
                 ctx, pc, loc, ref, last, calls>>

\* the callers: uid 0 and an ordinary user
NextSetContext ==
  \E c \in {[uid |-> 0, gid |-> 0], [uid |-> 1000, gid |-> 1000]} : SetContext(c)

NextAttr ==
  \/ Mkdir(<<"a">>, 493)
  \/ Create(<<"-">>, 420)
  \* requested modes: 0, S_IFDIR | 0o644, S_IFREG | 0o600, 0o4755
  \/ \E path \in AttrPaths, mode \in {0, 16804, 33152, 2541} :
       Chmod(path, mode)
  \/ \E path \in AttrPaths, uid \in {0, 5} :
       Chown(path, uid, 6)
  \/ NextSetContext
  \/ Tick

SpecAttr == Init /\ [][NextAttr]_vars

\* the offsets and lengths tried where the state space is the concern
ConcOffsets == {0, CHUNK_SIZE}

\* FUSE callbacks on one file /a and its handles, one call after another
IoPaths == {<<>>, <<"a">>}
\* handle numbers the kernel may send, issued or not
Fds == 1..3

\* SQLiteFS.open: the inode is looked up, then a descriptor is handed out
Open(path, flags) ==
  LET r == fs_open(DB, path, flags, clock)
      fd == fd_counter + 1
  IN
  /\ calls < MaxCalls
  /\ Idle
  /\ Commit(r)
  /\ calls' = calls + 1
  /\ IF r.err = ""
     THEN /\ fd_counter' = fd
          /\ open_files' = PutFd(open_files, fd,
                                 [path |-> path, inode_id |-> r.ret, flags |-> flags])
          /\ last' = Call("open", <<path, flags>>, Done(r.db, fd))
     ELSE /\ UNCHANGED <<fd_counter, open_files>>
          /\ last' = Call("open", <<path, flags>>, r)
  /\ UNCHANGED <<clock, ctx, pc, loc, ref>>

FsRead(fh, offset, length) ==
  /\ Finish("read", <<fh, offset, length>>,
            fs_read(DB, open_files, fh, offset, length, clock), ref)
  /\ UNCHANGED calls

FsWrite(fh, data, offset) ==
  LET r == fs_write(DB, open_files, fh, data, offset, clock) IN
  /\ Finish("write", <<fh, data, offset>>, r,
            IF r.err = ""
            THEN [ref EXCEPT ![open_files[fh].inode_id] = RefWrite(@, offset, data)]
            ELSE ref)
  /\ UNCHANGED calls

Release(fh) ==
  /\ Idle
  /\ open_files' = fs_release(open_files, fh)
  /\ last' = Call("release", <<fh>>, Done(DB, 0))
  /\ UNCHANGED <<inodes, entries, file_data, seq, fd_counter, clock, ctx,
                 pc, loc, ref, calls>>

NextRelease == \E fh \in Fds : Release(fh)

NextIO ==
  \/ Create(<<"a">>, 420)
  \/ Unlink(<<"a">>)
  \/ \E path \in IoPaths, flags \in {0, O_RDWR} :
       (path = <<>> => flags = 0) /\ Open(path, flags)
  \/ \E fh \in Fds :
       FsRead(fh, 0, CHUNK_SIZE)
  \/ \E fh \in Fds :
       FsWrite(fh, DataString(1), 0)
  \/ NextRelease

SpecIO == Init /\ [][NextIO]_vars

\* open of /a and of the root with each access mode, at different times
\* os.O_RDONLY, os.O_WRONLY, os.O_RDWR
NextOpenTimes ==
  \/ Create(<<"a">>, 420)
  \/ \E path \in IoPaths, flags \in {0, 1, O_RDWR} : Open(path, flags)
  \/ NextRelease
  \/ Tick

SpecOpen == Init /\ [][NextOpenTimes]_vars

\* FUSE callbacks on one file /a with storage faults
FWrite(fh, data, offset, fault) ==
  LET r == fs_write_fault(DB, open_files, fh, data, offset, clock, fault) IN
  /\ Finish("write", <<fh, data, offset>>, r,
            IF fh \in DOMAIN open_files /\ r.db.file_data # file_data
            THEN [ref EXCEPT ![open_files[fh].inode_id] = RefWrite(@, offset, data)]
            ELSE ref)
  /\ UNCHANGED calls

FChown(path, uid, gid, fault) ==
  /\ Finish("chown", <<path, uid, gid>>,
            fs_chown_fault(DB, path, uid, gid, ctx, clock, fault), ref)
  /\ UNCHANGED calls

\* SQLiteFS.open with a storage fault: the update_times call comes after the
\* record is stored and is not inside a try, so its exception leaves open
\* (the FUSE layer answers EFAULT) with the record in the table
FOpen(path, flags, fault) ==
  LET r == fs_open(DB, path, flags, clock)
      fd == fd_counter + 1
      updates == r.err = "" /\ ~S_ISDIR(inodes[r.ret].mode) /\ WantsRead(flags)
      rec == [path |-> path, inode_id |-> r.ret, flags |-> flags]
  IN
  /\ calls < MaxCalls
  /\ Idle
  /\ calls' = calls + 1
  /\ IF fault = "first"
     THEN /\ UNCHANGED <<inodes, entries, file_data, seq, fd_counter, open_files>>
          /\ last' = Call("open", <<path, flags>>, Fail(DB, "EFAULT"))
     ELSE IF r.err # ""
     THEN /\ UNCHANGED <<inodes, entries, file_data, seq, fd_counter, open_files>>
          /\ last' = Call("open", <<path, flags>>, r)
     ELSE IF fault = "update_times" /\ updates
     THEN /\ UNCHANGED <<inodes, entries, file_data, seq>>
          /\ fd_counter' = fd
          /\ open_files' = PutFd(open_files, fd, rec)
          /\ last' = Call("open", <<path, flags>>, Fail(DB, "EFAULT"))
     ELSE /\ Commit(r)
          /\ fd_counter' = fd
          /\ open_files' = PutFd(open_files, fd, rec)
          /\ last' = Call("open", <<path, flags>>, Done(r.db, fd))
  /\ UNCHANGED <<clock, ctx, pc, loc, ref>>

NextFault ==
  \/ Create(<<"a">>, 420)
  \/ \E fh \in Fds, offset \in ConcOffsets, fault \in Faults :
       FWrite(fh, DataString(1), offset, fault)
  \/ \E path \in IoPaths, uid \in {0, 5}, fault \in Faults : FChown(path, uid, 6, fault)
  \/ NextSetContext

SpecFault == Init /\ [][NextFault]_vars

\* open, create and release with storage faults in open
NextOpenFault ==
  \/ Create(<<"a">>, 420)
  \/ \E path \in IoPaths, flags \in {0, O_RDWR}, fault \in Faults :
       FOpen(path, flags, fault)
  \/ NextRelease

SpecOpenFault == Init /\ [][NextOpenFault]_vars

\* Database API: regular files in '/', their hard links and their content
LinkCreate(n) ==
  Run("create_entry", <<n>>, create_entry(DB, <<>>, n, FileMode, ctx.uid, ctx.gid, clock))
LinkRemove(n) == Run("remove_entry", <<n>>, remove_entry(DB, <<>>, n))
HardLink(n, i) == Run("hard_link", <<n, i>>, hard_link(DB, 1, n, i))

NextLink ==
  \/ \E n \in FsNames :
       LinkCreate(n)
  \/ \E n \in FsNames :
       LinkRemove(n)
  \/ \E n \in FsNames, i \in DataInodes :
       i \in DOMAIN inodes /\ HardLink(n, i)
  \/ \E i \in DataInodes, offset \in ConcOffsets :
       WriteData(i, offset, DataString(1))

SpecLink == Init /\ [][NextLink]_vars

\* ------------------------------------------------- two worker threads
\* Each thread has its own connection (Database.get_conn).  The sqlite3
\* module opens a transaction only in front of INSERT / UPDATE / DELETE, so
\* the SELECTs a method runs first are not in the transaction of its writes:
\* a method is a check step and, later, a transaction step, and other
\* threads run in between.  The transaction step holds the database write
\* lock and is atomic.

\* the check step raised: the method returns with the state untouched
Raise(t, op, msg) ==
  /\ last' = Call(op, <<>>, Fail(DB, msg))
  /\ UNCHANGED <<inodes, entries, file_data, seq, pc, loc, ref>>

\* the check step passed: the thread goes on to its transaction
Proceed(t, op, locals) ==
  /\ pc' = [pc EXCEPT ![t] = op]
  /\ loc' = [loc EXCEPT ![t] = locals]
  /\ UNCHANGED <<inodes, entries, file_data, seq, last, ref>>

\* the transaction step: commit or roll back, then return
Return(t, op, args, r) ==
  /\ pc[t] = op
  /\ Commit(r)
  /\ ref' = RefFor(r.db.inodes, ref)
  /\ last' = Call(op, args, r)
  /\ pc' = [pc EXCEPT ![t] = "idle"]
  /\ loc' = [loc EXCEPT ![t] = NoCall]
  /\ UNCHANGED <<fd_counter, open_files, clock, ctx, calls>>

CCreateBegin(t) ==
  LET c == create_check(DB, <<>>, "a") IN
  /\ pc[t] = "idle" /\ calls < MaxCalls /\ seq < MaxInode
  /\ calls' = calls + 1
  /\ IF c.err # "" THEN Raise(t, "create_entry", c.err)
     ELSE Proceed(t, "create_entry", [parent_id |-> c.parent_id])
  /\ UNCHANGED <<fd_counter, open_files, clock, ctx>>
CCreateEnd(t) ==
  /\ pc[t] = "create_entry" /\ seq < MaxInode
  /\ Return(t, "create_entry", <<>>,
            create_txn(DB, loc[t].parent_id, "a", FileMode, ctx.uid, ctx.gid, clock))

CRemoveBegin(t) ==
  LET c == remove_check(DB, <<>>, "a") IN
  /\ pc[t] = "idle" /\ calls < MaxCalls
  /\ calls' = calls + 1
  /\ IF c.err # "" THEN Raise(t, "remove_entry", c.err)
     ELSE Proceed(t, "remove_entry", [parent_id |-> c.parent_id, inode_id |-> c.inode_id])
  /\ UNCHANGED <<fd_counter, open_files, clock, ctx>>
CRemoveEnd(t) ==
  /\ pc[t] = "remove_entry"
  /\ Return(t, "remove_entry", <<>>,
            remove_txn(DB, loc[t].parent_id, "a", loc[t].inode_id))

CWriteBegin(t, i, offset, data) ==
  LET c == size_check(DB, i) IN
  /\ pc[t] = "idle"
  /\ IF c.err # "" THEN Raise(t, "write_data", c.err)
     ELSE Proceed(t, "write_data", [inode_id |-> i, offset |-> offset, data |-> data,
                                    current_size |-> c.current_size])
  /\ UNCHANGED <<fd_counter, open_files, clock, ctx, calls>>
CWriteEnd(t) ==
  /\ pc[t] = "write_data"
  /\ Return(t, "write_data", <<loc[t].inode_id, loc[t].offset, loc[t].data>>,
            write_txn(DB, loc[t].inode_id, loc[t].offset, loc[t].data,
                      loc[t].current_size, clock))

CTruncateBegin(t, i, length) ==
  LET c == size_check(DB, i) IN
  /\ pc[t] = "idle"
  /\ IF c.err # "" THEN Raise(t, "truncate", c.err)
     ELSE Proceed(t, "truncate", [inode_id |-> i, length |-> length,
                                  current_size |-> c.current_size])
  /\ UNCHANGED <<fd_counter, open_files, clock, ctx, calls>>
CTruncateEnd(t) ==
  /\ pc[t] = "truncate"
  /\ Return(t, "truncate", <<loc[t].inode_id, loc[t].length>>,
            truncate_txn(DB, loc[t].inode_id, loc[t].length,
                         loc[t].current_size, clock))

NextConc ==
  \/ \E t \in Threads : CCreateBegin(t)
  \/ \E t \in Threads : CCreateEnd(t)
  \/ \E t \in Threads : CRemoveBegin(t)
  \/ \E t \in Threads : CRemoveEnd(t)
  \/ \E t \in Threads, i \in DataInodes, offset \in ConcOffsets :
       CWriteBegin(t, i, offset, DataString(1))
  \/ \E t \in Threads : CWriteEnd(t)
  \/ \E t \in Threads, i \in DataInodes, length \in {0, 1} :
       CTruncateBegin(t, i, length)
  \/ \E t \in Threads : CTruncateEnd(t)

SpecConc == Init /\ [][NextConc]_vars

\* two threads that write one file /a, nothing else running
NextWriters ==
  \/ DataCreate
  \/ \E t \in Threads, i \in DataInodes, offset \in 0..MaxOff, data \in DataStrings :
       CWriteBegin(t, i, offset, data)
  \/ \E t \in Threads : CWriteEnd(t)

SpecWriters == Init /\ [][NextWriters]_vars

\* --------------------------------- two worker threads in open and create
\* The mount runs with nothreads=False and SQLiteFS takes no lock.
\* 'self.fd_counter += 1' reads the attribute, adds and stores it back;
\* 'fd = self.fd_counter' reads it again; 'self.open_files[fd] = ...' stores
\* the record.  Each of the four is one step, and other threads run in
\* between.

\* the part of open / create in front of the descriptor; r.ret is the inode
HBegin(t, op, path, flags, r) ==
  /\ pc[t] = "idle" /\ calls < MaxCalls /\ r.db.seq <= MaxInode
  /\ calls' = calls + 1
  /\ Commit(r)
  /\ ref' = RefFor(r.db.inodes, ref)
  /\ IF r.err # ""
     THEN /\ last' = Call(op, <<path>>, r)
          /\ UNCHANGED <<pc, loc>>
     ELSE /\ pc' = [pc EXCEPT ![t] = "fd_load"]
          /\ loc' = [loc EXCEPT ![t] = [op |-> op, path |-> path,
                                        inode_id |-> r.ret, flags |-> flags,
                                        tmp |-> 0, fd |-> 0]]
          /\ UNCHANGED last
  /\ UNCHANGED <<fd_counter, open_files, clock, ctx>>

HOpenBegin(t, path) == HBegin(t, "open", path, 0, fs_open(DB, path, 0, clock))
HCreateBegin(t) ==
  HBegin(t, "create", <<"a">>, CreateFlags, fs_create(DB, <<"a">>, 420, ctx, clock))

\* self.fd_counter += 1: the read
HLoad(t) ==
  /\ pc[t] = "fd_load"
  /\ loc' = [loc EXCEPT ![t].tmp = fd_counter]
  /\ pc' = [pc EXCEPT ![t] = "fd_store"]
  /\ UNCHANGED <<inodes, entries, file_data, seq, fd_counter, open_files,
                 clock, ctx, ref, last, calls>>

\* self.fd_counter += 1: the store
HStore(t) ==
  /\ pc[t] = "fd_store"
  /\ fd_counter' = loc[t].tmp + 1
  /\ pc' = [pc EXCEPT ![t] = "fd_read"]
  /\ UNCHANGED <<inodes, entries, file_data, seq, open_files, clock, ctx,
                 loc, ref, last, calls>>

\* fd = self.fd_counter
HRead(t) ==
  /\ pc[t] = "fd_read"
  /\ loc' = [loc EXCEPT ![t].fd = fd_counter]
  /\ pc' = [pc EXCEPT ![t] = "fd_put"]
  /\ UNCHANGED <<inodes, entries, file_data, seq, fd_counter, open_files,
                 clock, ctx, ref, last, calls>>

\* self.open_files[fd] = {...}; return fd
HPut(t) ==
  /\ pc[t] = "fd_put"
  /\ open_files' = PutFd(open_files, loc[t].fd,
                         [path |-> loc[t].path, inode_id |-> loc[t].inode_id,
                          flags |-> loc[t].flags])
  /\ last' = Call(loc[t].op, <<loc[t].path>>, Done(DB, loc[t].fd))
  /\ pc' = [pc EXCEPT ![t] = "idle"]
  /\ loc' = [loc EXCEPT ![t] = NoCall]
  /\ UNCHANGED <<inodes, entries, file_data, seq, fd_counter, clock, ctx,
                 ref, calls>>

NextHandle ==
  \/ \E t \in Threads, path \in IoPaths : HOpenBegin(t, path)
  \/ \E t \in Threads : HCreateBegin(t)
  \/ \E t \in Threads : HLoad(t)
  \/ \E t \in Threads : HStore(t)
  \/ \E t \in Threads : HRead(t)
  \/ \E t \in Threads : HPut(t)

SpecHandle == Init /\ [][NextHandle]_vars

\* -------------------------------- two worker threads in create and mkdir
\* SQLiteFS.create and mkdir look the path up, then call create_entry, which
\* looks the name up again and then inserts: three steps, and other threads
\* run in between.
ExistPaths == {<<"a">>, <<"-">>}

\* the lookups of SQLiteFS.create / mkdir in front of create_entry
XBegin(t, op, path) ==
  LET dirname == split_dir(path)
      err == IF get_inode_by_path(DB, dirname) = None THEN "ENOENT"
             ELSE IF get_inode_by_path(DB, path) # None THEN "EEXIST"
             ELSE ""
  IN
  /\ pc[t] = "idle" /\ calls < MaxCalls /\ seq < MaxInode
  /\ calls' = calls + 1
  /\ IF err # ""
     THEN /\ last' = Call(op, <<path>>, Fail(DB, err))
          /\ UNCHANGED <<pc, loc>>
     ELSE /\ pc' = [pc EXCEPT ![t] = "fs_checked"]
          /\ loc' = [loc EXCEPT ![t] = [op |-> op, path |-> path]]
          /\ UNCHANGED last
  /\ UNCHANGED <<inodes, entries, file_data, seq, fd_counter, open_files,
                 clock, ctx, ref>>

\* the SELECTs of create_entry; what it raises comes back as EIO
XCheck(t) ==
  LET path == loc[t].path
      c == create_check(DB, split_dir(path), split_base(path))
  IN
  /\ pc[t] = "fs_checked"
  /\ IF c.err # ""
     THEN /\ last' = Call(loc[t].op, <<path>>, Fail(DB, "EIO"))
          /\ pc' = [pc EXCEPT ![t] = "idle"]
          /\ loc' = [loc EXCEPT ![t] = NoCall]
     ELSE /\ pc' = [pc EXCEPT ![t] = "create_entry"]
          /\ loc' = [loc EXCEPT ![t] = [op |-> loc[t].op, path |-> path,
                                        parent_id |-> c.parent_id]]
          /\ UNCHANGED last
  /\ UNCHANGED <<inodes, entries, file_data, seq, fd_counter, open_files,
                 clock, ctx, ref, calls>>

\* the INSERTs of create_entry and the rest of the callback
XEnd(t) ==
  LET path == loc[t].path
      op == loc[t].op
      mode == IF op = "mkdir" THEN DirMode ELSE FileMode
      r == create_txn(DB, loc[t].parent_id, split_base(path), mode,
                      ctx.uid, ctx.gid, clock)
      fd == fd_counter + 1
  IN
  /\ pc[t] = "create_entry"
  /\ pc' = [pc EXCEPT ![t] = "idle"]
  /\ loc' = [loc EXCEPT ![t] = NoCall]
  /\ IF r.err # ""
     THEN /\ last' = Call(op, <<path>>, Fail(DB, "EIO"))
          /\ UNCHANGED <<inodes, entries, file_data, seq, ref, fd_counter,
                         open_files>>
     ELSE /\ Commit(r)
          /\ ref' = RefFor(r.db.inodes, ref)
          /\ IF op = "create"
             THEN /\ fd_counter' = fd
                  /\ open_files' = PutFd(open_files, fd,
                                         [path |-> path, inode_id |-> r.ret,
                                          flags |-> CreateFlags])
                  /\ last' = Call(op, <<path>>, Done(r.db, fd))
             ELSE /\ UNCHANGED <<fd_counter, open_files>>
                  /\ last' = Call(op, <<path>>, Done(r.db, 0))
  /\ UNCHANGED <<clock, ctx, calls>>

NextExist ==
  \/ \E t \in Threads, op \in {"create", "mkdir"}, path \in ExistPaths :
       XBegin(t, op, path)
  \/ \E t \in Threads : XCheck(t)
  \/ \E t \in Threads : XEnd(t)

SpecExist == Init /\ [][NextExist]_vars

\* ------------------------------------------ two worker threads in unlink
\* SQLiteFS.unlink looks the path up and tests its type, then calls
\* remove_entry, which looks the name up again and then deletes: three
\* steps.  The callbacks of the other thread run whole in between.

\* a whole callback of another thread, run while this one is inside unlink
Beside(op, args, r) ==
  /\ calls < MaxCalls
  /\ r.db.seq <= MaxInode
  /\ calls' = calls + 1
  /\ Commit(r)
  /\ ref' = RefFor(r.db.inodes, ref)
  /\ last' = Call(op, args, r)
  /\ UNCHANGED <<fd_counter, open_files, clock, ctx, pc, loc>>

\* mknod-free file creation and the directory callbacks of the other thread
UCreate(path) ==
  LET r == fs_create(DB, path, 420, ctx, clock)
      fd == fd_counter + 1
  IN
  /\ calls < MaxCalls
  /\ r.db.seq <= MaxInode
  /\ calls' = calls + 1
  /\ Commit(r)
  /\ ref' = RefFor(r.db.inodes, ref)
  /\ IF r.err = ""
     THEN /\ fd_counter' = fd
          /\ open_files' = PutFd(open_files, fd,
                                 [path |-> path, inode_id |-> r.ret,
                                  flags |-> CreateFlags])
          /\ last' = Call("create", <<path>>, Done(r.db, fd))
     ELSE /\ UNCHANGED <<fd_counter, open_files>>
          /\ last' = Call("create", <<path>>, r)
  /\ UNCHANGED <<clock, ctx, pc, loc>>

\* the lookup and the type test of SQLiteFS.unlink
UBegin(t, path) ==
  LET inode == get_inode_by_path(DB, path)
      err == IF inode = None THEN "ENOENT"
             ELSE IF S_ISDIR(inodes[inode].mode) THEN "EISDIR"
             ELSE ""
  IN
  /\ pc[t] = "idle" /\ calls < MaxCalls
  /\ calls' = calls + 1
  /\ IF err # ""
     THEN /\ last' = Call("unlink", <<path>>, Fail(DB, err))
          /\ UNCHANGED <<pc, loc>>
     ELSE /\ pc' = [pc EXCEPT ![t] = "unlink_checked"]
          /\ loc' = [loc EXCEPT ![t] = [path |-> path]]
          /\ UNCHANGED last
  /\ UNCHANGED <<inodes, entries, file_data, seq, fd_counter, open_files,
                 clock, ctx, ref>>

\* the SELECTs of remove_entry; what it raises comes back as EIO
UCheck(t) ==
  LET path == loc[t].path
      c == remove_check(DB, split_dir(path), split_base(path))
  IN
  /\ pc[t] = "unlink_checked"
  /\ IF c.err # ""
     THEN /\ last' = Call("unlink", <<path>>, Fail(DB, "EIO"))
          /\ pc' = [pc EXCEPT ![t] = "idle"]
          /\ loc' = [loc EXCEPT ![t] = NoCall]
     ELSE /\ pc' = [pc EXCEPT ![t] = "remove_entry"]
          /\ loc' = [loc EXCEPT ![t] = [path |-> path, parent_id |-> c.parent_id,
                                        inode_id |-> c.inode_id]]
          /\ UNCHANGED last
  /\ UNCHANGED <<inodes, entries, file_data, seq, fd_counter, open_files,
                 clock, ctx, ref, calls>>

\* the DELETEs and the UPDATE of remove_entry, then return 0
UEnd(t) ==
  LET path == loc[t].path
      r == remove_txn(DB, loc[t].parent_id, split_base(path), loc[t].inode_id)
  IN
  /\ pc[t] = "remove_entry"
  /\ pc' = [pc EXCEPT ![t] = "idle"]
  /\ loc' = [loc EXCEPT ![t] = NoCall]
  /\ IF r.err # ""
     THEN /\ last' = Call("unlink", <<path>>, Fail(DB, "EIO"))
          /\ UNCHANGED <<inodes, entries, file_data, seq, ref>>
     ELSE /\ Commit(r)
          /\ ref' = RefFor(r.db.inodes, ref)
          /\ last' = Call("unlink", <<path>>, Done(r.db, 0))
  /\ UNCHANGED <<fd_counter, open_files, clock, ctx, calls>>

NextUnlinkRace ==
  \/ \E path \in ExistPaths : UCreate(path)
  \/ \E path \in ExistPaths :
       Beside("mkdir", <<path>>, fs_mkdir(DB, path, 493, ctx, clock))
  \/ \E path \in ExistPaths :
       Beside("rmdir", <<path>>, fs_rmdir(DB, path))
  \/ \E old \in ExistPaths, new \in ExistPaths :
       Beside("fs_rename", <<old, new>>, fs_rename(DB, old, new, clock))
  \/ \E t \in Threads, path \in ExistPaths : UBegin(t, path)
  \/ \E t \in Threads : UCheck(t)
  \/ \E t \in Threads : UEnd(t)

SpecUnlink == Init /\ [][NextUnlinkRace]_vars

\* ================================================================ claims
IsRegular(i) == i \in DOMAIN inodes /\ ~IsDirMode(inodes[i].mode)
Size(i) == inodes[i].size
Read(i, offset, length) == read_data(inodes, file_data, i, offset, length)
\* ceil(n / CHUNK_SIZE)
ChunksFor(n) == (n + CHUNK_SIZE - 1) \div CHUNK_SIZE

\* C1: under any sequence of Write and Truncate on a regular file, every
\* Read(i, offset, length) with offset < size returns min(length, size -
\* offset) bytes, equal to the slice [offset, offset + length) of the
\* reference flat byte array (Write overwrites and zero-fills the gap,
\* Truncate cuts or zero-extends); absent or short chunks read as zeros.
C1_ReadMatchesFlatArray ==
  \A i \in DOMAIN inodes :
    IsRegular(i) =>
      \A offset \in 0..MaxSize, length \in 1..(MaxSize + 1) :
        offset < Size(i) =>
          /\ Len(Read(i, offset, length)) = Min(length, Size(i) - offset)
          /\ Read(i, offset, length) = Slice(ref[i], offset, offset + length)

\* C2: for every existing inode i, offset >= 0 and non-empty b, Write(i,
\* offset, b) returns len(b), an immediately following Read(i, offset,
\* len(b)) returns exactly b, and size(i) >= offset + len(b).
C2_WriteReadRoundTrip ==
  (last.op = "write_data" /\ last.args[1] \in DOMAIN inodes) =>
    LET i == last.args[1]
        offset == last.args[2]
        b == last.args[3]
    IN /\ last.err = ""
       /\ last.ret = Len(b)
       /\ Read(i, offset, Len(b)) = b
       /\ Size(i) >= offset + Len(b)

\* C2 witness: a write that straddles two chunks of a file that already had
\* content has completed
C2_Witness ==
  /\ last.op = "write_data" /\ last.err = ""
  /\ last.args[2] \div CHUNK_SIZE # (last.args[2] + Len(last.args[3]) - 1) \div CHUNK_SIZE
  /\ last.args[2] % CHUNK_SIZE # 0
  /\ Len(ref[last.args[1]]) > last.args[2] + Len(last.args[3])

\* C3: in every committed state no chunk row (i, k) exists with
\* k >= ceil(size(i) / CHUNK_SIZE).
C3_NoChunkBeyondSize ==
  \A p \in DOMAIN file_data :
    p[1] \in DOMAIN inodes => p[2] < ChunksFor(Size(p[1]))

\* C4: inode 1, the root directory, exists in every reachable state.
C4_RootExists == 1 \in DOMAIN inodes

\* C5: after bootstrap on an empty database, resolving '/' returns inode 1,
\* a directory with nlink 2, and the entries (1, '.', 1) and (1, '..', 1)
\* exist.
C5_BootstrapRoot ==
  (last.op = "" /\ calls = 0) =>
    /\ get_inode_by_path(DB, <<>>) = 1
    /\ IsDirMode(inodes[1].mode)
    /\ inodes[1].nlink = 2
    /\ Row(1, ".", 1) \in entries
    /\ Row(1, "..", 1) \in entries

\* C5 witness: the state the constructor leaves, before any call
C5_Witness == last.op = "" /\ calls = 0 /\ seq = 1 /\ DOMAIN inodes = {1}

\* C6: in every committed state every directory other than root has a '.'
\* entry pointing to itself and a '..' entry pointing to the directory that
\* contains it, and root's '.' and '..' point to root.
C6_DotEntries ==
  /\ Lookup(entries, 1, ".") = 1
  /\ Lookup(entries, 1, "..") = 1
  /\ \A d \in DOMAIN inodes \ {1} :
       IsDirMode(inodes[d].mode) =>
         /\ Lookup(entries, d, ".") = d
         /\ \A e \in entries :
              (e.inode_id = d /\ e.name \notin {".", ".."}) =>
                Lookup(entries, d, "..") = e.parent_id

\* C7: in every committed state the parent_id of every entry names an inode
\* whose mode is a directory.
C7_ParentsAreDirectories ==
  \A e \in entries :
    e.parent_id \in DOMAIN inodes /\ IsDirMode(inodes[e.parent_id].mode)

\* C8: in every committed state the parent_id and the inode_id of every
\* entry reference an inode that exists.
C8_EntriesReferenceInodes ==
  \A e \in entries : e.parent_id \in DOMAIN inodes /\ e.inode_id \in DOMAIN inodes

\* C9: in every committed state every inode other than root is the target
\* of at least one entry whose name is neither '.' nor '..'.
C9_NoDanglingInode ==
  \A i \in DOMAIN inodes \ {1} :
    \E e \in entries : e.inode_id = i /\ e.name \notin {".", ".."}

\* C10: in every committed state every file_data row's inode_id names an
\* existing inode, under every interleaving of Write with a Remove of the
\* last link running on another connection.
C10_NoOrphanChunk == \A p \in DOMAIN file_data : p[1] \in DOMAIN inodes

\* C11: for every (parent_id, name) at most one entry exists in every
\* reachable state, and a Create(parent, name, ...) issued when (parent,
\* name) already maps fails with 'Entry already exists' and leaves inodes,
\* entries and chunks unchanged (no inode is allocated).
C11_NameUniqueness ==
  /\ \A e \in entries, f \in entries :
       (e.parent_id = f.parent_id /\ e.name = f.name) => e = f
  /\ \A pp \in ParentPaths, n \in NAMES, mode \in {FileMode, DirMode} :
       LET parent_id == get_inode_by_path(DB, pp)
           r == create_entry(DB, pp, n, mode, ctx.uid, ctx.gid, clock)
       IN (parent_id # None /\ Lookup(entries, parent_id, n) # None) =>
            /\ r.err = "Entry already exists"
            /\ r.db = DB

\* C11 witness: a second create_entry of a name made by an earlier
\* create_entry has been refused
C11_Witness ==
  /\ last.op = "create_entry" /\ last.err = "Entry already exists"
  /\ \E e \in entries : e.name = "a" /\ e.inode_id > 1

\* C12: after a successful Rename(old_parent, old_name, new_parent,
\* new_name) with (old_parent, old_name) # (new_parent, new_name), the old
\* path no longer resolves and the new path resolves to the inode id the
\* old path resolved to before, for files and directories, within one
\* parent or across parents.  Checked from the states in which every
\* entry's parent is a directory, for a destination parent that is one.
C12_RenameMovesPath ==
  [][\A old \in Paths, new \in Paths \ {<<>>} :
       (/\ Rename(old, new) /\ last'.err = "" /\ old # new
        /\ C7_ParentsAreDirectories
        /\ IsDirMode(inodes[get_inode_by_path(DB, split_dir(new))].mode)) =>
         /\ get_inode_by_path(DB', old) = None
         /\ get_inode_by_path(DB', new) = get_inode_by_path(DB, old)]_vars

RECURSIVE Below(_, _)
\* the inodes reached from the set S through entries other than '.' and '..'
Below(E, S) ==
  LET T == S \cup {e.inode_id : e \in {f \in E : f.parent_id \in S
                                              /\ f.name \notin {".", ".."}}}
  IN IF T = S THEN S ELSE Below(E, T)

\* C13: Rename of a directory D to a destination whose parent is D itself
\* or a descendant of D at any depth, whatever other entries the
\* directories on the path contain, fails with EINVAL ('Cannot move
\* directory into itself') and leaves all entries unchanged.
C13_RenameIntoOwnSubtree ==
  [][\A old \in Paths \ {<<>>}, new \in Paths \ {<<>>} :
       LET D == get_inode_by_path(DB, old)
           new_parent_id == get_inode_by_path(DB, split_dir(new))
       IN (/\ Rename(old, new)
           /\ D # None /\ IsDirMode(inodes[D].mode)
           /\ new_parent_id \in Below(entries, {D})
           /\ IsDirMode(inodes[new_parent_id].mode)
           /\ get_inode_by_path(DB, new) = None) =>
            /\ last'.err = "EINVAL"
            /\ entries' = entries]_vars

\* C14: Rename never succeeds when the source entry resolves to inode 1:
\* every Rename whose (old_parent, old_name) maps to the root inode, for
\* example through a '.' or '..' entry, with the destination parent the same
\* as or different from the source parent, fails and leaves entries
\* unchanged.
C14_RootNeverRenamed ==
  [][\A opp \in ParentPaths, on \in NAMES, npp \in ParentPaths, nn \in NAMES :
       (/\ DbRename(opp, on, npp, nn)
        /\ Lookup(entries, get_inode_by_path(DB, opp), on) = 1) =>
         /\ last'.err # ""
         /\ entries' = entries]_vars

\* C15: a same-path Rename (old_parent = new_parent and old_name =
\* new_name, source entry existing) succeeds and leaves the entries table
\* exactly as it was.
C15_SamePathRename ==
  [][\A pp \in ParentPaths, n \in FsNames :
       (/\ DbRename(pp, n, pp, n)
        /\ Lookup(entries, get_inode_by_path(DB, pp), n) # None) =>
         /\ last'.err = ""
         /\ entries' = entries]_vars

\* C16: Rename onto a destination (new_parent, new_name) that already maps
\* to an entry different from the source fails with 'Target already exists'
\* (EEXIST at the kernel layer) and leaves the source entry, the destination
\* entry and their inodes unchanged.
C16_RenameOntoExisting ==
  [][(last'.op = "fs_rename" /\ calls' = calls + 1) =>
       LET old == last'.args[1]
           new == last'.args[2]
           old_parent_id == get_inode_by_path(DB, split_dir(old))
           new_parent_id == get_inode_by_path(DB, split_dir(new))
       IN (/\ old_parent_id # None /\ new_parent_id # None
           /\ Lookup(entries, old_parent_id, split_base(old)) # None
           /\ Lookup(entries, new_parent_id, split_base(new)) # None
           /\ <<old_parent_id, split_base(old)>> # <<new_parent_id, split_base(new)>>) =>
            /\ rename(DB, split_dir(old), split_base(old), split_dir(new),
                      split_base(new), clock).err = "Target already exists"
            /\ last'.err = "EEXIST"
            /\ UNCHANGED <<inodes, entries, file_data, seq>>]_vars

\* C16 witness: a rename of one existing path onto another existing path,
\* the two naming different inodes, has been refused with EEXIST
C16_Witness ==
  /\ last.op = "fs_rename" /\ last.err = "EEXIST"
  /\ last.args[1] # last.args[2]
  /\ get_inode_by_path(DB, last.args[1]) # None
  /\ get_inode_by_path(DB, last.args[2]) # None
  /\ get_inode_by_path(DB, last.args[1]) # get_inode_by_path(DB, last.args[2])

\* the chunk rows of inode i
ChunksOf(fd, i) == [p \in {q \in DOMAIN fd : q[1] = i} |-> fd[p]]

\* C17: Remove of an entry to a regular file decrements that inode's nlink
\* by exactly one and deletes the inode together with all of its chunks if
\* and only if nlink thereby reaches 0; while another link remains the
\* inode, its chunks and the other path stay accessible with nlink reduced
\* by one.
C17_RemoveRegularFile ==
  [][(last'.op = "remove_entry" /\ calls' = calls + 1) =>
       LET n == last'.args[1]
           i == Lookup(entries, 1, n)
       IN (i # None /\ IsRegular(i)) =>
            /\ last'.err = ""
            /\ Lookup(entries', 1, n) = None
            /\ IF inodes[i].nlink - 1 = 0
               THEN /\ i \notin DOMAIN inodes'
                    /\ ChunksOf(file_data', i) = <<>>
               ELSE /\ i \in DOMAIN inodes'
                    /\ inodes'[i].nlink = inodes[i].nlink - 1
                    /\ ChunksOf(file_data', i) = ChunksOf(file_data, i)
                    /\ read_data(inodes', file_data', i, 0, MaxSize) = Read(i, 0, MaxSize)
                    /\ \A m \in FsNames \ {n} :
                         Lookup(entries, 1, m) = i =>
                           get_inode_by_path(DB', <<m>>) = i]_vars

\* C17 witness: one of two links to the only file, which has content, has
\* been removed and the file is still there under its other name
C17_Witness ==
  /\ last.op = "remove_entry" /\ last.err = ""
  /\ seq = 2 /\ 2 \in DOMAIN inodes /\ inodes[2].nlink = 1
  /\ Lookup(entries, 1, last.args[1]) = None
  /\ \E m \in FsNames : Lookup(entries, 1, m) = 2
  /\ ChunksOf(file_data, 2) # <<>>

\* C18: Remove (and rmdir) of a directory that contains an entry other than
\* '.' and '..' fails with 'Directory not empty' (ENOTEMPTY at the kernel
\* layer) and leaves inodes, entries and chunks unchanged; once it contains
\* no such entry the same Remove succeeds and the path no longer resolves.
C18_RemoveDirectory ==
  [][(last'.op = "rmdir" /\ calls' = calls + 1) =>
       LET path == last'.args[1]
           d == get_inode_by_path(DB, path)
       IN (path # <<>> /\ d # None /\ IsDirMode(inodes[d].mode)) =>
            IF \E e \in entries : e.parent_id = d /\ e.name \notin {".", ".."}
            THEN /\ remove_entry(DB, split_dir(path), split_base(path)).err
                      = "Directory not empty"
                 /\ last'.err = "ENOTEMPTY"
                 /\ UNCHANGED <<inodes, entries, file_data, seq>>
            ELSE /\ last'.err = ""
                 /\ get_inode_by_path(DB', path) = None]_vars

\* C18 witness: rmdir of a directory that holds a regular file has been
\* refused with ENOTEMPTY
C18_Witness ==
  /\ last.op = "rmdir" /\ last.err = "ENOTEMPTY"
  /\ LET d == get_inode_by_path(DB, last.args[1]) IN
       /\ d # None /\ IsDirMode(inodes[d].mode)
       /\ \E e \in entries : e.parent_id = d /\ IsRegular(e.inode_id)

\* C19: for any file in any state and any new_length < size, after
\* Truncate(i, new_length) the size is new_length, Read(i, 0, new_length)
\* returns the bytes it returned before the truncate, and every Read at an
\* offset >= new_length returns empty.
C19_TruncateDown ==
  [][(last'.op = "truncate" /\ last'.args[1] \in DOMAIN inodes) =>
       LET i == last'.args[1]
           new_length == last'.args[2]
       IN (IsRegular(i) /\ new_length < Size(i)) =>
            /\ last'.err = ""
            /\ i \in DOMAIN inodes'
            /\ inodes'[i].size = new_length
            /\ read_data(inodes', file_data', i, 0, new_length)
                 = Read(i, 0, new_length)
            /\ \A offset \in new_length..(MaxSize + 1), length \in 1..(MaxSize + 1) :
                 read_data(inodes', file_data', i, offset, length) = <<>>]_vars

\* C19 witness: a truncate has cut a file inside a stored chunk, below the
\* size it had, and bytes remain in front of the cut
C19_Witness ==
  /\ last.op = "truncate" /\ last.err = ""
  /\ last.args[2] < last.size /\ last.args[2] > 0
  /\ last.args[2] % CHUNK_SIZE # 0
  /\ HasChunk(file_data, last.args[1], (last.args[2] - 1) \div CHUNK_SIZE)
  /\ \E j \in 1..last.args[2] : Read(last.args[1], 0, last.args[2])[j] # 0

\* C20: Truncate(i, N) with N greater than the current size inserts no
\* chunk row (the set of chunk indices stored for i is unchanged) and the
\* grown region [old_size, N) reads back as zero bytes; on a 0-byte file no
\* chunk exists afterwards and Read(i, 0, N) returns N zero bytes.
C20_TruncateUp ==
  [][(last'.op = "truncate" /\ last'.args[1] \in DOMAIN inodes) =>
       LET i == last'.args[1]
           N == last'.args[2]
       IN (IsRegular(i) /\ N > Size(i)) =>
            /\ last'.err = ""
            /\ DOMAIN ChunksOf(file_data', i) = DOMAIN ChunksOf(file_data, i)
            /\ read_data(inodes', file_data', i, Size(i), N - Size(i))
                 = ZeroSeq(N - Size(i))
            /\ Size(i) = 0 =>
                 /\ ChunksOf(file_data', i) = <<>>
                 /\ read_data(inodes', file_data', i, 0, N) = ZeroSeq(N)]_vars

\* C20 witness: a truncate has grown a file whose size ended inside a
\* stored chunk, and the file has content in front of the grown region
C20_Witness ==
  /\ last.op = "truncate" /\ last.err = ""
  /\ last.args[2] > last.size /\ last.size % CHUNK_SIZE # 0
  /\ HasChunk(file_data, last.args[1], (last.size - 1) \div CHUNK_SIZE)
  /\ \E j \in 1..last.size : ref[last.args[1]][j] # 0

\* C21: after a Write of b at offset k > 0 to a freshly created empty file,
\* size = k + len(b), Read(i, 0, k) returns exactly k zero bytes, and
\* Read(i, k, len(b)) returns b.
C21_HoleReadsZero ==
  [][(last'.op = "write_data" /\ last'.args[1] \in DOMAIN inodes) =>
       LET i == last'.args[1]
           k == last'.args[2]
           b == last'.args[3]
       IN (IsRegular(i) /\ Size(i) = 0 /\ ChunksOf(file_data, i) = <<>> /\ k > 0) =>
            /\ last'.err = ""
            /\ inodes'[i].size = k + Len(b)
            /\ Len(read_data(inodes', file_data', i, 0, k)) = k
            /\ \A j \in 1..k : read_data(inodes', file_data', i, 0, k)[j] = 0
            /\ read_data(inodes', file_data', i, k, Len(b)) = b]_vars

\* C21 witness: the first write to a new file was made past its first
\* chunk, which is not stored
C21_Witness ==
  /\ last.op = "write_data" /\ last.err = "" /\ last.size = 0
  /\ last.args[2] >= CHUNK_SIZE
  /\ ~HasChunk(file_data, last.args[1], 0)
  /\ Size(last.args[1]) = last.args[2] + Len(last.args[3])

\* C28: re-opening the storage on a database file that already contains
\* inode 1 leaves inodes, entries and chunks exactly as they were (bootstrap
\* inserts no second root and rewrites nothing), so every path resolves to
\* the same inode and every Read returns the same bytes after
\* close-and-reopen as before.
C28_ReopenPreserves ==
  [][(last'.op = "reopen" /\ 1 \in DOMAIN inodes) =>
       /\ last'.err = ""
       /\ UNCHANGED <<inodes, entries, file_data, seq>>
       /\ \A path \in Paths :
            get_inode_by_path(DB', path) = get_inode_by_path(DB, path)
       /\ \A i \in DOMAIN inodes, offset \in 0..MaxSize :
            read_data(inodes', file_data', i, offset, MaxSize)
              = Read(i, offset, MaxSize)]_vars

\* C28 witness: the storage has been re-opened on a file that holds /a with
\* stored content
C28_Witness ==
  /\ last.op = "reopen" /\ last.err = ""
  /\ Lookup(entries, 1, "a") \in DOMAIN inodes
  /\ ChunksOf(file_data, Lookup(entries, 1, "a")) # <<>>

\* C25: kernel-level rename whose source entry does not exist, or whose old
\* or new parent directory does not exist, fails with ENOENT and leaves
\* entries unchanged.
C25_RenameMissingSource ==
  [][(last'.op = "fs_rename" /\ calls' = calls + 1) =>
       LET old == last'.args[1]
           new == last'.args[2]
           old_parent_id == get_inode_by_path(DB, split_dir(old))
           new_parent_id == get_inode_by_path(DB, split_dir(new))
       IN (\/ old_parent_id = None
           \/ new_parent_id = None
           \/ Lookup(entries, old_parent_id, split_base(old)) = None) =>
            /\ last'.err = "ENOENT"
            /\ entries' = entries]_vars

\* C29: readdir of a directory returns each stored name exactly once; in
\* particular '.' and '..' each appear exactly once in the result.
C29_ReaddirNoDuplicates ==
  (last.op = "readdir" /\ last.err = "") =>
    LET d == get_inode_by_path(DB, last.args[1]) IN
    d # None =>
      \A e \in entries :
        e.parent_id = d =>
          Cardinality({j \in 1..Len(last.data) : last.data[j] = e.name}) = 1

\* C26: chmod on any existing path changes only the 9 permission bits of
\* the inode's mode: the file-type bits after chmod equal the file-type
\* bits before it (a regular file stays regular, a directory stays a
\* directory), for every requested mode value.
C26_ChmodKeepsType ==
  [][(last'.op = "chmod" /\ calls' = calls + 1) =>
       LET path == last'.args[1]
           mode == last'.args[2]
           i == get_inode_by_path(DB, path)
       IN i # None =>
            /\ last'.err = ""
            /\ i \in DOMAIN inodes'
            /\ inodes'[i].mode \div 512 = inodes[i].mode \div 512
            /\ PermBits(inodes'[i].mode) = PermBits(mode)
            /\ IsDirMode(inodes'[i].mode) = IsDirMode(inodes[i].mode)
            /\ S_ISDIR(inodes'[i].mode) = S_ISDIR(inodes[i].mode)
            /\ \A j \in DOMAIN inodes \ {i} : inodes'[j] = inodes[j]]_vars

\* C26 witness: chmod of a regular file with a requested mode that carries
\* the directory type bit has been carried out
C26_Witness ==
  /\ last.op = "chmod" /\ last.err = ""
  /\ IsDirMode(last.args[2])
  /\ IsRegular(get_inode_by_path(DB, last.args[1]))
  /\ PermBits(inodes[get_inode_by_path(DB, last.args[1])].mode) = PermBits(last.args[2])

\* C27: chown on an existing path by a caller whose context uid is not 0
\* fails with EPERM and leaves the inode's uid, gid and ctime unchanged; by
\* a caller with uid 0 it sets uid and gid to the requested values.
C27_ChownRootOnly ==
  [][(last'.op = "chown" /\ calls' = calls + 1) =>
       LET path == last'.args[1]
           i == get_inode_by_path(DB, path)
       IN i # None =>
            IF ctx.uid # 0
            THEN /\ last'.err = "EPERM"
                 /\ inodes'[i].uid = inodes[i].uid
                 /\ inodes'[i].gid = inodes[i].gid
                 /\ inodes'[i].ctime = inodes[i].ctime
                 /\ UNCHANGED <<inodes, entries, file_data, seq>>
            ELSE /\ last'.err = ""
                 /\ inodes'[i].uid = last'.args[2]
                 /\ inodes'[i].gid = last'.args[3]]_vars

\* C27 witness: a caller without uid 0 has been refused the chown of a file
\* made earlier, at a later time than the file's ctime
C27_Witness ==
  /\ last.op = "chown" /\ last.err = "EPERM" /\ ctx.uid # 0
  /\ LET i == get_inode_by_path(DB, last.args[1]) IN
       /\ i # None /\ i # 1
       /\ inodes[i].uid # last.args[2]
       /\ inodes[i].ctime < clock

\* C30: after the last link to a file is unlinked while a handle to it is
\* still open, every subsequent read and every subsequent write through
\* that handle fails with an error (neither returns data or a byte count),
\* and no chunk or inode is created for the deleted inode id.
C30_IoAfterUnlinkFails ==
  [][(last'.op \in {"read", "write"} /\ last'.args[1] \in DOMAIN open_files) =>
       LET i == open_files[last'.args[1]].inode_id IN
       i \notin DOMAIN inodes =>
         /\ last'.err # ""
         /\ i \notin DOMAIN inodes'
         /\ ChunksOf(file_data', i) = <<>>]_vars

\* C23: a handle is valid exactly from the successful open or create that
\* returned it until its release.  The handle table starts empty, a
\* successful open or create adds one number that was never returned
\* before, release takes its number out, and nothing else changes the
\* table; read and write with a number outside the table fail with EBADF
\* and leave the database as it was, and with a number inside the table
\* they never fail with EBADF.
C23_HandleLifetime ==
  [][LET op == last'.op IN
     /\ \A f \in DOMAIN open_files : f <= fd_counter
     /\ op \in {"read", "write"} =>
          /\ UNCHANGED <<open_files, fd_counter>>
          /\ IF last'.args[1] \in DOMAIN open_files
             THEN last'.err # "EBADF"
             ELSE last'.err = "EBADF" /\ UNCHANGED <<inodes, entries, file_data, seq>>
     /\ (op \in {"open", "create"} /\ last'.err = "") =>
          /\ last'.ret > fd_counter
          /\ fd_counter' = last'.ret
          /\ DOMAIN open_files' = DOMAIN open_files \cup {last'.ret}
          /\ \A f \in DOMAIN open_files : open_files'[f] = open_files[f]
     /\ (op \in {"open", "create"} /\ last'.err # "") =>
          UNCHANGED <<open_files, fd_counter>>
     /\ op = "release" =>
          /\ DOMAIN open_files' = DOMAIN open_files \ {last'.args[1]}
          /\ fd_counter' = fd_counter
     /\ op \notin {"read", "write", "open", "create", "release"} =>
          UNCHANGED <<open_files, fd_counter>>]_vars

\* C23 witness: a read through a handle that was issued and then released
\* has been refused, while another handle is still open
C23_Witness ==
  /\ last.op = "read" /\ last.err = "EBADF"
  /\ last.args[1] <= fd_counter
  /\ open_files # <<>>

\* C22: handle numbers are unique and strictly increasing: under any
\* interleaving of concurrent open and create calls no two successful calls
\* return the same handle number, no handle number is ever returned twice,
\* and no handle-table record is overwritten by another open.  No handle is
\* released here, so the table holds every number returned so far: the
\* number a call returns is above all of them and has no record yet.
C22_HandlesUnique ==
  [][\A t \in Threads :
       (pc[t] = "fd_put" /\ pc'[t] = "idle") =>
         /\ loc[t].fd \notin DOMAIN open_files
         /\ \A f \in DOMAIN open_files : f < loc[t].fd
         /\ \A f \in DOMAIN open_files : open_files'[f] = open_files[f]]_vars

\* C24: create or mkdir of a path whose entry already exists fails with
\* EEXIST, under every interleaving, also when the entry is inserted by a
\* concurrent create / mkdir between the caller's existence check and its
\* own insert: whenever a create or mkdir returns while the path resolves,
\* it returns EEXIST.
C24_ExistingPathEEXIST ==
  [][/\ \A t \in Threads :
          (pc[t] \in {"fs_checked", "create_entry"} /\ pc'[t] = "idle") =>
            (get_inode_by_path(DB, loc[t].path) # None => last'.err = "EEXIST")
     /\ (calls' = calls + 1 /\ pc' = pc /\ last'.op \in {"create", "mkdir"}) =>
            (get_inode_by_path(DB, last'.args[1]) # None => last'.err = "EEXIST")]_vars

\* C31: inode ids are assigned strictly increasing and are never reused:
\* every id returned by create_entry is greater than every id ever allocated
\* before it, including ids of inodes that have since been deleted.  The
\* AUTOINCREMENT counter never goes down and is never below an id in the
\* table, so it bounds every id allocated so far; a new id is above it.
C31_InodeIdsNeverReused ==
  [][/\ seq' >= seq
     /\ \A i \in DOMAIN inodes' : i <= seq'
     /\ (last'.op = "create_entry" /\ last'.err = "" /\ calls' = calls + 1) =>
          /\ last'.ret > seq
          /\ \A i \in DOMAIN inodes : i < last'.ret
          /\ DOMAIN inodes' = DOMAIN inodes \cup {last'.ret}]_vars

\* C31 witness: a create_entry has returned an id while a smaller id that
\* was allocated earlier is gone from the table, the largest one included
C31_Witness ==
  /\ last.op = "create_entry" /\ last.err = ""
  /\ last.ret = seq
  /\ last.ret - 1 \notin DOMAIN inodes
  /\ last.ret > 2

\* C32: when two write_data calls on the same file run concurrently on
\* different connections and both commit, the final size is at least
\* max(offset1 + len1, offset2 + len2), never smaller than what either
\* writer established, and bytes written to ranges the other writer did
\* not touch read back as written: a commit never lowers the size, and it
\* changes the content only in the range it writes.
C32_ConcurrentWriters ==
  [][\A t \in Threads :
       (pc[t] = "write_data" /\ pc'[t] = "idle" /\ last'.err = "") =>
         LET i == loc[t].inode_id
             offset == loc[t].offset
             data == loc[t].data
         IN /\ inodes'[i].size >= Max(inodes[i].size, offset + Len(data))
            /\ read_data(inodes', file_data', i, 0, 2 * MaxSize) =
                 RefWrite(read_data(inodes, file_data, i, 0, 2 * MaxSize),
                          offset, data)]_vars

\* C33: whenever unlink(path) succeeds, the entry it removed referred to a
\* regular file: under every interleaving with concurrent unlink, mkdir,
\* rmdir and rename on the same path, unlink never removes an entry whose
\* target is a directory.
C33_UnlinkRemovesFilesOnly ==
  [][\A t \in Threads :
       (pc[t] = "remove_entry" /\ pc'[t] = "idle" /\ last'.err = "") =>
         \A e \in entries \ entries' :
           /\ e.inode_id \in DOMAIN inodes
           /\ ~S_ISDIR(inodes[e.inode_id].mode)]_vars

\* C34: the ancestor walk that rename performs for a cross-parent move
\* always terminates: starting from new_parent it reaches inode 1 or a
\* failed '..' lookup after finitely many steps, for every reachable
\* directory tree and every naming of the entries in it.  In a tree whose
\* parents are all directories, no rename comes back to a directory the
\* walk has already visited.
C34_AncestorWalkTerminates ==
  [][(last'.op = "fs_rename" /\ calls' = calls + 1) =>
       (C7_ParentsAreDirectories => last'.err # "hang")]_vars

\* C35: every kernel-visible operation is all-or-nothing: an operation that
\* returns an error (including a storage fault raised at any step of create,
\* mkdir, write, read, chown, truncate, rename, unlink or rmdir) leaves
\* inodes, entries and chunks exactly as they were before the operation
\* started.
C35_AllOrNothing ==
  [][last'.err # "" => UNCHANGED <<inodes, entries, file_data>>]_vars

\* C36: an open or create call that fails (missing path, existing path, or
\* a storage fault at any step of the call) leaves the handle table
\* unchanged: a handle record exists only for calls that returned a handle
\* to the caller.
C36_FailedOpenLeavesTable ==
  [][(last'.op \in {"open", "create"} /\ calls' = calls + 1 /\ last'.err # "") =>
       UNCHANGED open_files]_vars

\* C37: open of a regular file with flags that indicate read access
\* (read-only as well as read-write) updates the inode's atime, and open
\* with write-only flags leaves atime unchanged.
C37_OpenUpdatesAtime ==
  [][(last'.op = "open" /\ calls' = calls + 1 /\ last'.err = "") =>
       LET i == get_inode_by_path(DB, last'.args[1])
           flags == last'.args[2]
       IN (i # None /\ ~S_ISDIR(inodes[i].mode)) =>
            IF flags % 4 \in {0, 2}
            THEN inodes'[i].atime = clock
            ELSE inodes'[i].atime = inodes[i].atime]_vars

\* C38: write_data to an inode id that does not exist fails with 'Inode not
\* found' and creates no chunk row and no inode; read_data of an inode id
\* that does not exist returns empty bytes without error and changes
\* nothing.
C38_MissingInodeIO ==
  [][/\ (last'.op = "write_data" /\ last'.args[1] \notin DOMAIN inodes) =>
          /\ last'.err = "Inode not found"
          /\ UNCHANGED <<inodes, entries, file_data, seq>>
     /\ (last'.op = "read_data" /\ last'.args[1] \notin DOMAIN inodes) =>
          /\ last'.err = ""
          /\ last'.data = <<>>
          /\ UNCHANGED <<inodes, entries, file_data, seq>>]_vars

\* C38 witness: a write_data to the id of a file that has been removed has
\* been refused
C38_Witness ==
  /\ last.op = "write_data" /\ last.err = "Inode not found"
  /\ last.args[1] \notin DOMAIN inodes
  /\ last.args[1] <= seq
  /\ ChunksOf(file_data, last.args[1]) = <<>>

\* C39: in every reachable state every directory inode has size 0 and owns
\* no chunk rows: no sequence of kernel-level operations (including open of
\* a directory followed by write through the returned handle, and truncate
\* on a directory path) stores file content under a directory inode.
C39_DirectoriesHoldNoData ==
  \A i \in DOMAIN inodes :
    S_ISDIR(inodes[i].mode) =>
      inodes[i].size = 0 /\ ChunksOf(file_data, i) = <<>>

\* C40: in every state reached through create_entry, remove_entry and rename,
\* a regular-file inode has nlink >= 1 and nlink equal to the number of
\* entries that name it; a rename that succeeds leaves nlink, size and the
\* chunks of the inode it moves as they were.
C40_Moved ==
  rename_check(DB, last'.args[1], last'.args[2], last'.args[3], last'.args[4]).inode_id
C40_NlinkCountsEntries ==
  [][/\ \A i \in DOMAIN inodes' :
          ~S_ISDIR(inodes'[i].mode) =>
            /\ inodes'[i].nlink >= 1
            /\ inodes'[i].nlink =
                 Cardinality({e \in entries' : e.inode_id = i})
     /\ (last'.op = "rename" /\ last'.err = "" /\ calls' = calls + 1) =>
          /\ C40_Moved \in DOMAIN inodes /\ C40_Moved \in DOMAIN inodes'
          /\ inodes'[C40_Moved].nlink = inodes[C40_Moved].nlink
          /\ inodes'[C40_Moved].size = inodes[C40_Moved].size
          /\ ChunksOf(file_data', C40_Moved) = ChunksOf(file_data, C40_Moved)]_vars

====
